---- MODULE Spec2Model ----
(***************************************************************************)
(* Hybrid test runner of ui-workflow: replay of a persisted workflow       *)
(* script with per-step fallback to the browser-use agent, capture of the  *)
(* agent's step and write-back into the script file.                       *)
(*                                                                         *)
(* Sources: workflow_use/hybrid/fallback_manager.py,                       *)
(*          workflow_use/hybrid/test_runner.py,                            *)
(*          workflow_use/hybrid/simple_capture.py,                         *)
(*          workflow_use/controller/service.py.                            *)
(*                                                                         *)
(* Strings are sequences of one-character strings, so that split, int()    *)
(* and formatting are computed and not assumed.                            *)
(***************************************************************************)
EXTENDS Integers, Sequences, FiniteSets, TLC

VARIABLES
    calls,      \* SpecUpdate, SpecVersion: number of update_workflow_with_step calls made
    file,       \* the script file at workflow_path (NoFile when absent)
    prevFile,   \* the file before the last update_workflow_with_step
    lastUpdate, \* arguments and return value of the last update
    replaced,   \* indices whose step a successful update replaced
    pc,             \* where the run started by run_test stands
    runs,           \* number of run_test calls started
    agent_run,      \* the last browser_agent.run call of this run: cap handed over, steps taken
    wf,             \* workflow.steps as loaded by Workflow.load_from_file
    nLines,         \* number of step lines of the Gherkin scenario of this run
    step_index,     \* loop variable of _execute_workflow_with_fallback
    ret,            \* (success, result, updated_step) of execute_step_with_fallback
    step_results,   \* local of _execute_workflow_with_fallback
    fallback_steps, \* local of _execute_workflow_with_fallback
    workflow_updated, \* local of _execute_workflow_with_fallback
    overall_success,  \* "overall_success" of the dict _execute_workflow_with_fallback returns
    result,         \* the dict run_test returns (NoResult while the run is going)
    log,            \* this run's replay attempts, agent invocations and file writes, in order
    lines,          \* SpecExtract: the lines of the Gherkin scenario handed to the extraction
    extracted,      \* SpecExtract: the last _extract_step_from_gherkin call and its value
    descriptor,     \* SpecResolve: selector and params handed to get_best_element_handle
    page,           \* SpecResolve: the selectors whose element becomes visible on the page
    resolved,       \* SpecResolve: the last get_best_element_handle call and its outcome
    transcript,     \* SpecClassify: agent_history.all_results, the results of the agent's actions
    scenario,       \* SpecClassify: the lines of the Gherkin scenario
    n_actions,      \* SpecClassify: number of entries of agent_history.all_model_outputs
    classification, \* SpecClassify: the last classification made and its outcome
    element,        \* SpecSynthesize: the interacted element of an agent action, None for none
    synthesized,    \* SpecSynthesize: the selectors made for the element
    trace,          \* SpecCapture: agent_history.model_actions()
    capture,        \* SpecCapture: the steps extracted from the trace
    model_usage,    \* SpecTokens: TokenTracker.model_usage of the global tracker
    tasks,          \* SpecTokens: where each of the concurrent runs stands
    recorded        \* SpecTokens: the track_llm_call invocations that have returned

\* the state of the calls made outside a run
extractVars == <<lines, extracted>>

resolveVars == <<descriptor, page, resolved>>

classifyVars == <<transcript, scenario, n_actions, classification>>

captureVars == <<element, synthesized, trace, capture>>

tokenVars == <<model_usage, tasks, recorded>>

callVars == <<extractVars, resolveVars, classifyVars, captureVars, tokenVars>>

updateVars == <<calls, prevFile, lastUpdate, replaced, callVars>>

runVars ==
    <<pc, runs, agent_run, wf, nLines, step_index, ret, step_results, fallback_steps,
      workflow_updated, overall_success, result, log>>

vars == <<file, updateVars, runVars>>

----------------------------------------------------------------------------
(* Bounds of the model *)

MaxVerLen == 5
MaxSteps == 2
MaxUpdates == 3
MaxRuns == 2
MaxLines == 2

----------------------------------------------------------------------------
(* Strings *)

Digits == <<"0", "1", "2", "3", "4", "5", "6", "7", "8", "9">>

DigitSet == {Digits[i] : i \in 1..10}

\* characters the bounded version strings are drawn from
VerAlphabet == {"0", "1", "9", ".", "x"}

Str(n) == UNION {[1..k -> VerAlphabet] : k \in 0..n}

RECURSIVE split_dot(_)
\* str.split('.'): the parts between the dots, empty parts kept
split_dot(s) ==
    IF s = <<>> THEN << <<>> >>
    ELSE LET rest == split_dot(Tail(s))
         IN  IF Head(s) = "." THEN << <<>> >> \o rest
             ELSE << <<Head(s)>> \o Head(rest) >> \o Tail(rest)

\* whether int(s) returns (a decimal literal; over VerAlphabet no sign or blank occurs)
int_ok(s) == Len(s) > 0 /\ \A i \in 1..Len(s) : s[i] \in DigitSet

DigitVal(c) == CHOOSE d \in 0..9 : Digits[d + 1] = c

RECURSIVE int_acc(_, _)
int_acc(s, acc) ==
    IF s = <<>> THEN acc ELSE int_acc(Tail(s), 10 * acc + DigitVal(Head(s)))

\* int(s) for a decimal literal
int_of(s) == int_acc(s, 0)

RECURSIVE str_of(_)
\* str(n) / f"{n}" for n >= 0
str_of(n) ==
    IF n < 10 THEN <<Digits[n + 1]>>
    ELSE str_of(n \div 10) \o <<Digits[(n % 10) + 1]>>

----------------------------------------------------------------------------
(* FallbackManager._increment_version *)

\* faulty variant: the patch component is rewritten without being incremented
_increment_version_nobump(version) ==
    LET parts == split_dot(version)
    IN  IF Len(parts) >= 3
        THEN IF int_ok(parts[3])
             THEN parts[1] \o <<".">> \o parts[2] \o <<".">> \o str_of(int_of(parts[3]))
             ELSE <<"1", ".", "0", ".", "1">>
        ELSE version \o <<".", "1">>

_increment_version(version) ==
    LET parts == split_dot(version)
    IN  IF Len(parts) >= 3
        THEN IF int_ok(parts[3])
             THEN parts[1] \o <<".">> \o parts[2] \o <<".">> \o str_of(int_of(parts[3]) + 1)
             ELSE <<"1", ".", "0", ".", "1">>      \* except: return "1.0.1"
        ELSE version \o <<".", "1">>

----------------------------------------------------------------------------
(* The script file (workflow.json) and FallbackManager.update_workflow_with_step *)

\* step types of the workflow schema, one per deterministic controller action
Kinds == {"navigation", "click", "input", "select_change", "key_press", "scroll"}

\* a step as stored in the script: its type and where its definition came from
\* ("file": as first found in the script, "agent": captured from an agent run)
StepOf(k, o) == [type |-> k, origin |-> o]

Range(s) == {s[i] : i \in 1..Len(s)}

NoDup(s) == \A i, j \in 1..Len(s) : s[i] = s[j] => i = j

NoFile ==
    [exists |-> FALSE, corrupt |-> FALSE, version |-> <<>>, steps |-> <<>>,
     updated_steps |-> <<>>]

\* a file that exists but whose content json.load rejects (truncated by open(..., 'w')
\* and not, or only partly, rewritten)
CorruptFile ==
    [exists |-> TRUE, corrupt |-> TRUE, version |-> <<>>, steps |-> <<>>,
     updated_steps |-> <<>>]

ScriptFile(v, st, us) ==
    [exists |-> TRUE, corrupt |-> FALSE, version |-> v, steps |-> st,
     updated_steps |-> us]

\* outcomes of the file system during one update: all reads and writes succeed, the
\* read or json.load raises, open(..., 'w') raises, json.dump raises after the open
IoOutcomes == {"ok", "read_error", "open_error", "dump_error"}

\* faulty variant: the new step is appended instead of replacing the step at index
replace_step_append(steps, index, updated_step) == Append(steps, updated_step)

\* workflow_data['steps'][step_index] = updated_step.model_dump()
replace_step(steps, index, updated_step) ==
    [steps EXCEPT ![index + 1] = updated_step]

\* faulty variant: the index is appended without the membership test
record_updated_step_always(updated_steps, index) == Append(updated_steps, index)

\* if step_index not in updated_steps: updated_steps.append(step_index)
record_updated_step(updated_steps, index) ==
    IF index \in Range(updated_steps) THEN updated_steps
    ELSE Append(updated_steps, index)

\* the value returned and the file left behind
update_workflow_with_step(f, index, updated_step, io) ==
    IF ~f.exists THEN [ok |-> FALSE, file |-> f]
    ELSE IF f.corrupt \/ io = "read_error" THEN [ok |-> FALSE, file |-> f]
    ELSE IF ~(index < Len(f.steps)) THEN [ok |-> FALSE, file |-> f]
    ELSE LET workflow_data ==
                 [f EXCEPT !.steps = replace_step(@, index, updated_step),
                           !.version = _increment_version(@),
                           !.updated_steps = record_updated_step(@, index)]
         IN  CASE io = "open_error" -> [ok |-> FALSE, file |-> f]
               [] io = "dump_error" -> [ok |-> FALSE, file |-> CorruptFile]
               [] OTHER -> [ok |-> TRUE, file |-> workflow_data]

----------------------------------------------------------------------------------------------------------------------------------------
(* SpecUpdate: sequences of update_workflow_with_step calls on one script file *)

NoStep == [type |-> "none", origin |-> "none"]

NoRet == [success |-> FALSE, result |-> "None", updated_step |-> NoStep]

NoResult ==
    [success |-> FALSE, execution_method |-> "none", keys |-> {},
     step_results |-> <<>>, fallback_steps |-> <<>>, workflow_updated |-> FALSE,
     workflow_captured |-> FALSE]

\* no browser_agent.run call yet
NoAgentRun == [max_steps |-> 0, n_steps |-> 0]

RunIdle ==
    /\ pc = "idle"
    /\ runs = 0
    /\ agent_run = NoAgentRun
    /\ wf = <<>>
    /\ nLines = 0
    /\ step_index = 0
    /\ ret = NoRet
    /\ step_results = <<>>
    /\ fallback_steps = <<>>
    /\ workflow_updated = FALSE
    /\ overall_success = TRUE
    /\ result = NoResult
    /\ log = <<>>

\* the value None of _extract_step_from_gherkin
NoSubScenario == [none |-> TRUE, feature_line |-> 0, scenario_line |-> 0, step_lines |-> <<>>]

NoExtract == [called |-> FALSE, step_index |-> 0, ret |-> NoSubScenario]

\* no stand-alone call has been made
\* params without any of the optional attributes
NoParams ==
    [primarySelector |-> "None", semanticSelector |-> "None", fallbackSelectors |-> <<>>,
     xpath |-> "None", elementTag |-> ""]

NoResolve ==
    [called |-> FALSE, ok |-> FALSE, selector |-> "None", attempts |-> <<>>,
     timeouts |-> <<>>, reported |-> "None"]

ExtractIdle ==
    /\ lines = <<>>
    /\ extracted = NoExtract

ResolveIdle ==
    /\ descriptor = [selector |-> "#a", params |-> NoParams, timeout_given |-> FALSE,
                     timeout_ms |-> 0]
    /\ page = {}
    /\ resolved = NoResolve

NoVerdict == [by |-> "none", path |-> "none", overall |-> FALSE, statuses |-> <<>>]

ClassifyIdle ==
    /\ transcript = <<>>
    /\ scenario = <<>>
    /\ n_actions = 0
    /\ classification = NoVerdict

\* a selector string, by its parts: the attribute or form it selects by, the tag in
\* front, the value(s) and the classes; kind "None" is Python's None, "empty" is ""
Sel(kind, tag, value, value2, classes) ==
    [kind |-> kind, tag |-> tag, value |-> value, value2 |-> value2, classes |-> classes]

NoneSel == Sel("None", "", "", "", <<>>)

EmptySel == Sel("empty", "", "", "", <<>>)

\* attributes without any entry
NoAttrs ==
    [data_testid |-> "", data_cy |-> "", id |-> "", name |-> "", type |-> "",
     placeholder |-> "", role |-> "", aria_label |-> "", class |-> <<>>]

\* interacted_element is None
NoElement ==
    [none |-> TRUE, tag_name |-> "div", attributes |-> NoAttrs, css_selector |-> "",
     xpath |-> ""]

\* no element handed over, nothing made for it
NoSelectors ==
    [called |-> FALSE, cssSelector |-> EmptySel, xpath |-> "None", primary |-> NoneSel,
     semantic |-> NoneSel, fallbacks |-> <<>>, has_keys |-> FALSE]

NoCapture == [called |-> FALSE, steps |-> <<>>]

CaptureIdle ==
    /\ element = NoElement
    /\ synthesized = NoSelectors
    /\ trace = <<>>
    /\ capture = NoCapture

TokenIdle ==
    /\ model_usage = <<>>
    /\ tasks = <<>>
    /\ recorded = <<>>

CallIdle ==
    /\ ExtractIdle
    /\ ResolveIdle
    /\ ClassifyIdle
    /\ CaptureIdle
    /\ TokenIdle

NoUpdate ==
    [step_index |-> 0, updated_step |-> StepOf("click", "file"), io |-> "ok",
     ok |-> FALSE, called |-> FALSE]

V100 == <<"1", ".", "0", ".", "0">>

V109 == <<"1", ".", "0", ".", "9">>

V10 == <<"1", ".", "0">>

\* versions of the scripts the runs start from: "1.0.0" is what capture writes
\* (simple_capture.py:56); "1.0.9" makes the patch carry; "1.0" has two parts
InitVersions == {V100, V109, V10}

SeqsUpTo(S, n) == UNION {[1..k -> S] : k \in 0..n}

UpdateKinds == {"click", "input"}

UpdateInitFiles ==
    {NoFile} \cup
    {ScriptFile(v, st, us) :
        v \in InitVersions,
        st \in SeqsUpTo({StepOf(k, "file") : k \in UpdateKinds}, MaxSteps),
        us \in {u \in SeqsUpTo(0..(MaxSteps - 1), MaxSteps) : NoDup(u)}}

InitUpdate ==
    /\ file \in UpdateInitFiles
    /\ prevFile = file
    /\ lastUpdate = NoUpdate
    /\ replaced = {}
    /\ calls = 0
    /\ RunIdle
    /\ CallIdle

UpdateStep(index, updated_step, io) ==
    LET r == update_workflow_with_step(file, index, updated_step, io)
    IN  /\ calls < MaxUpdates
        /\ calls' = calls + 1
        /\ prevFile' = file
        /\ file' = r.file
        /\ lastUpdate' = [step_index |-> index, updated_step |-> updated_step,
                          io |-> io, ok |-> r.ok, called |-> TRUE]
        /\ replaced' = IF r.ok THEN replaced \cup {index} ELSE replaced
        /\ UNCHANGED <<runVars, callVars>>

NextUpdate ==
    \E index \in 0..MaxSteps, k \in UpdateKinds, io \in IoOutcomes :
        UpdateStep(index, StepOf(k, "agent"), io)

SpecUpdate == InitUpdate /\ [][NextUpdate]_vars

----------------------------------------------------------------------------
(* SpecVersion: step updates of a one-step script whose version is any string of
   at most MaxVerLen characters over VerAlphabet *)

InitVersion ==
    /\ file \in {ScriptFile(v, <<StepOf("click", "file")>>, <<>>) : v \in Str(MaxVerLen)}
    /\ prevFile = file
    /\ lastUpdate = NoUpdate
    /\ replaced = {}
    /\ calls = 0
    /\ RunIdle
    /\ CallIdle

NextVersion ==
    \E io \in IoOutcomes : UpdateStep(0, StepOf("click", "agent"), io)

SpecVersion == InitVersion /\ [][NextVersion]_vars

----------------------------------------------------------------------------
(* Results of the deterministic controller actions and
   HybridTestRunner._determine_execution_method *)

\* what workflow.run_step returns for a step of type k that succeeds: the
\* ActionResult whose extracted_content is the controller's message. The message of
\* a click names the selector that was used: one of the CSS candidates, an
\* "xpath=..." alternative, or, as here for "#input_text", a selector whose text
\* holds one of the browser-use indicators
ReplayMessages(k) ==
    CASE k = "navigation" -> {"msg_navigated"}
      [] k = "click" -> {"msg_clicked", "msg_clicked_xpath", "msg_clicked_input_text"}
      [] k = "input" -> {"msg_input", "msg_ignored_select"}
      [] k = "select_change" -> {"msg_selected"}
      [] k = "key_press" -> {"msg_key"}
      [] k = "scroll" -> {"msg_scrolled"}

\* the indicator-relevant substrings of str(result). The controller's messages begin
\* with the emoji itself; the literals of test_runner.py hold the emoji's bytes
\* re-decoded as cp1252, a different string.
Fragments(res) ==
    CASE res = "msg_navigated" -> {"<U+1F517>  Navigated to URL:"}
      [] res = "msg_clicked" ->
            {"<U+1F5B1 U+FE0F>  Clicked element with CSS selector:", "with CSS selector:"}
      [] res = "msg_clicked_xpath" ->
            {"<U+1F5B1 U+FE0F>  Clicked element with CSS selector:", "with CSS selector:"}
      [] res = "msg_clicked_input_text" ->
            {"<U+1F5B1 U+FE0F>  Clicked element with CSS selector:", "with CSS selector:",
             "input_text"}
      [] res = "msg_input" -> {"<U+2328 U+FE0F>  Input", "with CSS selector:"}
      [] res = "msg_key" -> {"with CSS selector:"}
      [] res = "AgentHistoryList" -> {"AgentHistoryList"}
      [] OTHER -> {}

browser_use_indicators ==
    {"AgentHistoryList", "all_model_outputs", "input_text", "interacted_element",
     "DOMHistoryElement", "into index"}

workflow_execution_indicators ==
    {"<U+F0 U+178 U+201D U+2014>  Navigated to URL:",
     "<U+E2 U+152 U+A8 U+EF U+B8 U+8F>  Input",
     "<U+F0 U+178 U+2013 U+B1 U+EF U+B8 U+8F>  Clicked element with CSS selector:",
     "with CSS selector:"}

\* faulty variant: every result other than None is taken for a replay result
_determine_execution_method_flat(res) ==
    IF res = "None" THEN "unknown" ELSE "workflow-execution"

\* the method name returned, or "NameError": workflow_use_indicators is not defined,
\* so the third test raises before the duration is looked at
_determine_execution_method(res) ==
    IF res = "None" THEN "unknown"
    ELSE IF \E ind \in browser_use_indicators : ind \in Fragments(res)
         THEN "browser-use-fallback"
    ELSE IF \E ind \in workflow_execution_indicators : ind \in Fragments(res)
         THEN "workflow-execution"
    ELSE "NameError"

----------------------------------------------------------------------------
(* FallbackManager._fallback_to_browser_use *)

\* what browser_agent.run(max_steps=5) does: raises, returns an empty history, or
\* returns a history whose last result is one of LastResults
LastResults ==
    {"success_true", "success_false", "success_none",
     "content_passed", "content_failed", "content_plain"}

AgentOutcomes == {"raise", "empty"} \cup LastResults

\* faulty variant: no clear indicator and no exception means success
_is_execution_successful_lenient(last_result) == last_result # "success_false"

\* truthiness of what _is_execution_successful returns
_is_execution_successful(last_result) ==
    CASE last_result = "success_true" -> TRUE       \* hasattr success: its value
      [] last_result = "success_false" -> FALSE
      [] last_result = "success_none" -> FALSE      \* None is falsy
      [] last_result = "content_passed" -> TRUE     \* success keyword in content
      [] last_result = "content_failed" -> FALSE    \* failure keyword in content
      [] OTHER -> TRUE                              \* no clear indicator

\* faulty variant: a sub-scenario is made for every index
extract_ok_always(n_lines, i) == TRUE

\* _extract_step_from_gherkin returns a sub-scenario iff the scenario has a step
\* line of that index
extract_ok(n_lines, i) == i < n_lines

\* the step types the captured steps are drawn from: one whose replay message holds a
\* workflow-execution indicator and one whose message holds none
CapturedKinds == {"click", "scroll"}

AgentSteps == {StepOf(k, "agent") : k \in CapturedKinds}

\* an entry of the run's log: what happened, for which step, how it ended
Event(ev, i, ok, detail) == [ev |-> ev, i |-> i, ok |-> ok, detail |-> detail]

\* browser_agent.run(max_steps=5) of _fallback_to_browser_use
fallback_max_steps == 5

\* browser_agent.run(max_steps=50) of _run_first_time
first_time_max_steps == 50

\* faulty variant: the agent takes one step more than the cap
agent_steps_taken_over(max_steps, outcome) == {max_steps + 1}

\* the numbers of steps a browser_agent.run(max_steps) call is followed through:
\* none when it raises or returns an empty history, else one step or all max_steps
agent_steps_taken(max_steps, outcome) ==
    IF outcome \in {"raise", "empty"} THEN {0} ELSE {1, max_steps}

\* faulty variant: a failed agent run still hands back the captured step
fallback_ret_keep(outcome, cap) ==
    IF outcome \in LastResults
    THEN [success |-> _is_execution_successful(outcome),
          result |-> "AgentHistoryList", updated_step |-> cap]
    ELSE [success |-> FALSE, result |-> "None", updated_step |-> NoStep]

\* the tuple _fallback_to_browser_use returns once the agent has run
fallback_ret(outcome, cap) ==
    IF outcome \in LastResults /\ _is_execution_successful(outcome)
    THEN [success |-> TRUE, result |-> "AgentHistoryList", updated_step |-> cap]
    ELSE [success |-> FALSE, result |-> "None", updated_step |-> NoStep]

----------------------------------------------------------------------------
(* HybridTestRunner.run_test and the runs it starts *)

loopVars == <<step_results, fallback_steps, workflow_updated, overall_success>>

ErrorResult ==
    [NoResult EXCEPT !.execution_method = "error", !.keys = {"success", "error", "execution_method"}]

ResetRun ==
    /\ agent_run' = NoAgentRun
    /\ wf' = <<>>
    /\ nLines' = 0
    /\ step_index' = 0
    /\ ret' = NoRet
    /\ step_results' = <<>>
    /\ fallback_steps' = <<>>
    /\ workflow_updated' = FALSE
    /\ overall_success' = TRUE
    /\ log' = <<>>

\* run_test(test_file_path, force_browser_use): path_kind is "txt" or "json" (a
\* .workflow.json path), path_exists whether test_path exists
StartRun(path_kind, path_exists, force_browser_use) ==
    /\ path_kind = "json" => path_exists = file.exists
    /\ runs' = runs + 1
    /\ ResetRun
    /\ IF ~path_exists
       THEN pc' = "done" /\ result' = ErrorResult
       ELSE /\ result' = NoResult
            /\ pc' = IF file.exists /\ ~force_browser_use
                     THEN "with_workflow" ELSE "first_time"
    /\ UNCHANGED <<file, updateVars>>

\* the first run_test call on the script file
RunTest(path_kind, path_exists, force_browser_use) ==
    /\ pc = "idle"
    /\ StartRun(path_kind, path_exists, force_browser_use)

\* a further run_test call, once the previous one has returned
RunTestAgain(path_kind, path_exists, force_browser_use) ==
    /\ pc = "done"
    /\ runs < MaxRuns
    /\ StartRun(path_kind, path_exists, force_browser_use)

\* faulty variant: the loop starts the same step again
next_index_same(i) == i

\* for step_index in range(total_steps): the index after i
next_index(i) == i + 1

\* the loop header of _execute_workflow_with_fallback
LoopPc(i, total_steps) == IF i < total_steps THEN "replay" ELSE "finish"

\* _run_with_workflow up to the first step: scenario translation and script load
LoadWorkflow(gherkin_ok, n_lines, load_ok) ==
    /\ pc = "with_workflow"
    /\ IF gherkin_ok /\ load_ok /\ file.exists /\ ~file.corrupt
       THEN /\ nLines' = n_lines
            /\ wf' = file.steps
            /\ pc' = LoopPc(0, Len(file.steps))
            /\ log' = Append(log, Event("with_workflow", 0, TRUE, ""))
       ELSE \* except: fall back to full browser-use execution
            /\ pc' = "first_time"
            /\ log' = Append(log, Event("with_workflow", 0, FALSE, ""))
            /\ UNCHANGED <<nLines, wf>>
    /\ UNCHANGED <<file, updateVars, runs, agent_run, step_index, ret, loopVars, result>>

\* execute_step_with_fallback: await workflow.run_step(step_index)
TryReplay(ok, msg) ==
    /\ pc = "replay"
    /\ msg \in ReplayMessages(wf[step_index + 1].type)
    /\ log' = Append(log, Event("replay", step_index, ok, msg))
    /\ IF ok
       THEN /\ ret' = [success |-> TRUE, result |-> msg, updated_step |-> NoStep]
            /\ pc' = "record"
       ELSE /\ ret' = NoRet
            /\ pc' = "fallback"
    /\ UNCHANGED <<file, updateVars, runs, agent_run, wf, nLines, step_index, loopVars, result>>

\* the largest max_retries handed to execute_step_with_fallback (its default is 2)
MaxRetries == 2

\* faulty variant: the agent is run again for every retry allowed
agent_invocations_retrying(max_retries) == max_retries + 1

\* the browser_agent.run calls of one _fallback_to_browser_use: max_retries is
\* handed down and not read
agent_invocations(max_retries) == 1

\* _fallback_to_browser_use: sub-scenario, agent run, verdict, capture
Fallback(outcome, cap, max_retries) ==
    /\ pc = "fallback"
    /\ IF ~extract_ok(nLines, step_index)
       THEN /\ ret' = NoRet
            /\ UNCHANGED <<log, agent_run>>
       ELSE /\ \E n_steps \in agent_steps_taken(fallback_max_steps, outcome) :
                  agent_run' = [max_steps |-> fallback_max_steps, n_steps |-> n_steps]
            /\ ret' = fallback_ret(outcome, cap)
            /\ log' = log \o [m \in 1..agent_invocations(max_retries) |->
                                  Event("agent", step_index, ret'.success, outcome)]
    /\ pc' = "record"
    /\ UNCHANGED <<file, updateVars, runs, wf, nLines, step_index, loopVars, result>>

StepResult(i, success, method) == [step_index |-> i, success |-> success, method |-> method]

\* faulty variant: the loop goes on to the next step after a failed step
after_failure_pc_continue(i, total_steps) == LoopPc(i + 1, total_steps)

\* if not success: ... break
after_failure_pc(i, total_steps) == "finish"

\* faulty variant: the write-back is attempted whether or not a step was captured
has_updated_step_always(updated_step) == TRUE

\* if updated_step:
has_updated_step(updated_step) == updated_step # NoStep

\* _execute_workflow_with_fallback from the return of execute_step_with_fallback to
\* the next await
Record ==
    /\ pc = "record"
    /\ LET method == _determine_execution_method(ret.result)
       IN  IF method = "NameError"
           THEN \* except Exception: the dict built there has overall_success False
                /\ overall_success' = FALSE
                /\ pc' = "finish"
                /\ UNCHANGED <<step_results, fallback_steps, step_index>>
           ELSE /\ step_results' =
                       Append(step_results, StepResult(step_index, ret.success, method))
                /\ IF ~ret.success
                   THEN /\ overall_success' = FALSE
                        /\ pc' = after_failure_pc(step_index, Len(wf))
                        /\ step_index' = IF pc' = "finish" THEN step_index ELSE next_index(step_index)
                        /\ UNCHANGED fallback_steps
                   ELSE IF has_updated_step(ret.updated_step)
                   THEN /\ fallback_steps' = Append(fallback_steps, step_index)
                        /\ pc' = "persist"
                        /\ UNCHANGED <<overall_success, step_index>>
                   ELSE /\ step_index' = next_index(step_index)
                        /\ pc' = LoopPc(next_index(step_index), Len(wf))
                        /\ UNCHANGED <<overall_success, fallback_steps>>
    /\ UNCHANGED <<file, updateVars, runs, agent_run, wf, nLines, ret, workflow_updated, result, log>>

\* faulty variant: the flag is set whenever an update was attempted
updated_flag_always(flag, update_success) == TRUE

\* if update_success: workflow_updated = True
updated_flag(flag, update_success) == flag \/ update_success

\* await update_workflow_with_step(workflow_path, step_index, updated_step)
Persist(io) ==
    /\ pc = "persist"
    /\ LET r == update_workflow_with_step(file, step_index, ret.updated_step, io)
       IN  /\ file' = r.file
           /\ workflow_updated' = updated_flag(workflow_updated, r.ok)
           /\ log' = Append(log, Event("update", step_index, r.ok, io))
    /\ step_index' = next_index(step_index)
    /\ pc' = LoopPc(next_index(step_index), Len(wf))
    /\ UNCHANGED <<updateVars, runs, agent_run, wf, nLines, ret, step_results, fallback_steps,
                   overall_success, result>>

\* _run_with_workflow after _execute_workflow_with_fallback has returned
Finish ==
    /\ pc = "finish"
    /\ result' =
          [success |-> overall_success,
           execution_method |-> "workflow-use-with-fallback",
           keys |-> {"success", "execution_method", "step_results", "fallback_steps",
                     "workflow_updated"},
           step_results |-> step_results,
           fallback_steps |-> fallback_steps,
           workflow_updated |-> workflow_updated,
           workflow_captured |-> FALSE]
    /\ pc' = "done"
    /\ UNCHANGED <<file, updateVars, runs, agent_run, wf, nLines, step_index, ret, loopVars, log>>

FirstTimeResult(success, captured) ==
    [NoResult EXCEPT !.success = success,
                     !.execution_method = "browser-use-first-time",
                     !.keys = {"success", "execution_method", "workflow_captured"},
                     !.workflow_captured = captured]

\* _run_first_time up to await browser_agent.run(max_steps=50)
RunFirstTime(gherkin_ok) ==
    /\ pc = "first_time"
    /\ IF gherkin_ok
       THEN /\ pc' = "agent_full"
            /\ log' = Append(log, Event("agent_full", 0, TRUE, ""))
            /\ UNCHANGED result
       ELSE /\ pc' = "done"
            /\ result' = [FirstTimeResult(FALSE, FALSE) EXCEPT
                              !.keys = {"success", "execution_method", "error"}]
            /\ UNCHANGED log
    /\ UNCHANGED <<file, updateVars, runs, agent_run, wf, nLines, step_index, ret, loopVars>>

\* faulty variant: the workflow is saved whatever the verdict
save_wanted_always(success) == TRUE

\* if success: ... save_workflow(workflow_def, workflow_path)
save_wanted(success) == success

\* SimpleWorkflowCapture.save_workflow: the value returned and the file left behind
save_workflow(f, steps, io) ==
    CASE io \in {"open_error", "read_error"} -> [ok |-> FALSE, file |-> f]
      [] io = "dump_error" -> [ok |-> FALSE, file |-> CorruptFile]
      [] OTHER -> [ok |-> TRUE, file |-> ScriptFile(V100, steps, <<>>)]

\* _run_first_time from the return of the agent: verdict of the classifier, capture
\* of the whole trace (steps = <<>>: nothing extracted), save
FirstTimeFinish(agent_ok, verdict, steps, io) ==
    /\ pc = "agent_full"
    /\ \E n_steps \in agent_steps_taken(first_time_max_steps,
                                          IF agent_ok THEN "history" ELSE "raise") :
          agent_run' = [max_steps |-> first_time_max_steps, n_steps |-> n_steps]
    /\ pc' = "done"
    /\ IF ~agent_ok
       THEN /\ result' = [FirstTimeResult(FALSE, FALSE) EXCEPT
                              !.keys = {"success", "execution_method", "error"}]
            /\ UNCHANGED <<file, log>>
       ELSE IF ~save_wanted(verdict)
       THEN /\ result' = FirstTimeResult(FALSE, FALSE)
            /\ log' = Append(log, Event("verdict", 0, verdict, ""))
            /\ UNCHANGED file
       ELSE IF steps = <<>>
       THEN /\ result' = FirstTimeResult(TRUE, FALSE)
            /\ log' = Append(log, Event("verdict", 0, verdict, ""))
            /\ UNCHANGED file
       ELSE LET r == save_workflow(file, steps, io)
            IN  /\ file' = r.file
                /\ log' = log \o <<Event("verdict", 0, verdict, ""), Event("save", 0, r.ok, io)>>
                /\ result' = FirstTimeResult(TRUE, r.ok)
    /\ UNCHANGED <<updateVars, runs, wf, nLines, step_index, ret, loopVars>>

KindCycle == <<"navigation", "input", "click", "select_change", "key_press", "scroll">>

\* the scripts the runs start from: every slice of at most MaxSteps steps of the
\* cycle of step types, so that every type occurs at every index
InitScripts ==
    {[i \in 1..n |-> StepOf(KindCycle[((start + i) % 6) + 1], "file")] :
        start \in 0..5, n \in 0..MaxSteps}

RunInitFiles ==
    {NoFile, CorruptFile} \cup {ScriptFile(v, st, <<>>) : v \in {V100, V109}, st \in InitScripts}

Init ==
    /\ file \in RunInitFiles
    /\ prevFile = file
    /\ lastUpdate = NoUpdate
    /\ replaced = {}
    /\ calls = 0
    /\ RunIdle
    /\ CallIdle

Next ==
    \/ \E path_kind \in {"txt", "json"}, path_exists, force \in BOOLEAN :
          RunTest(path_kind, path_exists, force)
    \/ \E gherkin_ok, load_ok \in BOOLEAN, n_lines \in 0..MaxLines :
          LoadWorkflow(gherkin_ok, n_lines, load_ok)
    \/ \E ok \in BOOLEAN, msg \in UNION {ReplayMessages(k) : k \in Kinds} :
          TryReplay(ok, msg)
    \/ \E outcome \in AgentOutcomes, cap \in AgentSteps \cup {NoStep},
          max_retries \in 0..MaxRetries :
          Fallback(outcome, cap, max_retries)
    \/ Record
    \/ \E io \in IoOutcomes : Persist(io)
    \/ Finish
    \/ \E gherkin_ok \in BOOLEAN : RunFirstTime(gherkin_ok)
    \/ \E agent_ok, verdict \in BOOLEAN, io \in IoOutcomes,
          steps \in SeqsUpTo(AgentSteps, MaxSteps) :
          FirstTimeFinish(agent_ok, verdict, steps, io)

\* one run_test call on a script file of RunInitFiles
Spec == Init /\ [][Next]_vars

\* SpecRuns: up to MaxRuns run_test calls, one after the other, on the same path
InitRuns ==
    /\ file \in {NoFile, ScriptFile(V100, <<StepOf("click", "file")>>, <<>>)}
    /\ prevFile = file
    /\ lastUpdate = NoUpdate
    /\ replaced = {}
    /\ calls = 0
    /\ RunIdle
    /\ CallIdle

NextRuns ==
    \/ Next
    \/ \E path_kind \in {"txt", "json"}, path_exists, force \in BOOLEAN :
          RunTestAgain(path_kind, path_exists, force)

SpecRuns == InitRuns /\ [][NextRuns]_vars

----------------------------------------------------------------------------
(* Properties of update_workflow_with_step (SpecUpdate, SpecVersion) *)

\* C4: a successful update_workflow_with_step(path, i, s) on a script of n steps
\* replaces and does not append: the script still has n steps, step i is s and every
\* other step is as before; with i >= n the update reports failure and leaves the
\* file as it was.
C4_ReplaceNotAppend ==
    lastUpdate.called =>
        LET i == lastUpdate.step_index
            n == Len(prevFile.steps)
        IN  /\ lastUpdate.ok =>
                /\ i < n
                /\ Len(file.steps) = n
                /\ file.steps[i + 1] = lastUpdate.updated_step
                /\ \A j \in 1..n : j # i + 1 => file.steps[j] = prevFile.steps[j]
            /\ i >= n => ~lastUpdate.ok /\ file = prevFile

\* a two-step script whose first step was replaced by a different step
C4_Witness ==
    /\ lastUpdate.called /\ lastUpdate.ok
    /\ lastUpdate.step_index = 0
    /\ Len(prevFile.steps) = 2
    /\ file.steps[1] # prevFile.steps[1]
    /\ file.steps[2] = prevFile.steps[2]

\* the patch-incremented form of a version a.b.c (c a decimal literal)
PatchBumpOf(old, new) ==
    LET p == split_dot(old)
        q == split_dot(new)
    IN  /\ Len(q) = 3
        /\ q[1] = p[1] /\ q[2] = p[2]
        /\ int_ok(q[3])
        /\ int_of(q[3]) = int_of(p[3]) + 1
        /\ q[3] = str_of(int_of(q[3]))

\* C7 as stated: every persisted step update sets the version to patch + 1, or, when
\* the previous version is not three dot-separated parts with a numeric patch, to the
\* previous version with ".1" appended.
C7_AsStated ==
    lastUpdate.ok =>
        LET p == split_dot(prevFile.version)
        IN  IF Len(p) = 3 /\ int_ok(p[3])
            THEN PatchBumpOf(prevFile.version, file.version)
            ELSE file.version = prevFile.version \o <<".", "1">>

\* C7 (amended): every persisted step update sets the version to
\*   first.second.(third + 1) when the previous version has at least three
\*   dot-separated parts and its third part is an integer literal (further parts are
\*   dropped); to the previous version with ".1" appended when it has fewer than three
\*   parts; and to "1.0.1" when it has at least three parts and the third is not an
\*   integer literal.
C7_IncrementVersion ==
    lastUpdate.ok =>
        LET p == split_dot(prevFile.version)
        IN  /\ Len(p) >= 3 /\ int_ok(p[3]) => PatchBumpOf(prevFile.version, file.version)
            /\ Len(p) < 3 => file.version = prevFile.version \o <<".", "1">>
            /\ Len(p) >= 3 /\ ~int_ok(p[3]) => file.version = <<"1", ".", "0", ".", "1">>

\* a persisted update of a script whose version is "1.0.x"
C7_Witness ==
    /\ lastUpdate.ok
    /\ prevFile.version = <<"1", ".", "0", ".", "x">>
    /\ file.version = <<"1", ".", "0", ".", "1">>

\* C8: after any sequence of step updates of a script whose updated_steps starts
\* without duplicates, updated_steps holds no index twice and holds every index
\* whose step a successful update replaced.
C8_UpdatedSteps ==
    file.exists /\ ~file.corrupt =>
        /\ NoDup(file.updated_steps)
        /\ replaced \subseteq Range(file.updated_steps)

\* a second successful update of an index that updated_steps already held
C8_Witness ==
    /\ lastUpdate.ok
    /\ lastUpdate.step_index \in Range(prevFile.updated_steps)
    /\ lastUpdate.step_index \in replaced
    /\ file.updated_steps = prevFile.updated_steps
    /\ Len(file.updated_steps) = 2

----------------------------------------------------------------------------
(* Properties of the runs (Spec, SpecRuns) *)

LogIdx == 1..Len(log)

\* the log holds an entry of kind ev for step i
Logged(ev, i) == \E k \in LogIdx : log[k].ev = ev /\ log[k].i = i

ReplaySucceeded(i) == \E k \in LogIdx : log[k].ev = "replay" /\ log[k].i = i /\ log[k].ok

\* C1 as stated: in a replay run the agent is invoked for step i only if the replay
\* of step i failed in that run; when the replay of step i succeeds, the step is
\* reported successful (once the loop has gone past it, step_results holds a success
\* entry for it, and so does the run's result), with no agent invocation, no updated
\* step and no write to the script for i.
C1_AsStated ==
    /\ \A k \in LogIdx :
          log[k].ev = "agent" =>
              /\ k > 1
              /\ log[k - 1].ev = "replay" /\ log[k - 1].i = log[k].i /\ ~log[k - 1].ok
    /\ \A i \in 0..(Len(wf) - 1) :
          ReplaySucceeded(i) =>
              /\ ~Logged("agent", i)
              /\ ~Logged("update", i)
              /\ i \notin Range(fallback_steps)
              /\ pc = "record" /\ step_index = i =>
                    ret.success /\ ret.updated_step = NoStep
              /\ pc \in {"finish", "done"} \/ step_index > i =>
                    \E k \in 1..Len(step_results) :
                        step_results[k].step_index = i /\ step_results[k].success
              /\ pc = "done" =>
                    \E k \in 1..Len(result.step_results) :
                        /\ result.step_results[k].step_index = i
                        /\ result.step_results[k].success

\* step f has failed completely: execute_step_with_fallback returned failure for it
FailedCompletely(f) ==
    \/ pc = "record" /\ step_index = f /\ ~ret.success
    \/ \E k \in 1..Len(step_results) :
          step_results[k].step_index = f /\ ~step_results[k].success

\* C2: once a step has failed completely, no step of a higher index is replayed,
\* sent to the agent or written back, the run reports overall success = false, and
\* step_results holds entries only for the steps up to and including the failed one.
C2_StopAtFirstFailure ==
    \A f \in 0..(Len(wf) - 1) :
        FailedCompletely(f) =>
            /\ pc \in {"record", "finish", "done"}
            /\ \A k \in LogIdx : log[k].ev \in {"replay", "agent", "update"} => log[k].i <= f
            /\ \A k \in 1..Len(step_results) : step_results[k].step_index <= f
            /\ pc \in {"finish", "done"} =>
                  /\ ~overall_success
                  /\ Len(step_results) = f + 1
                  /\ \A k \in 1..(f + 1) : step_results[k].step_index = k - 1
                  /\ ~step_results[f + 1].success
            /\ pc = "done" =>
                  /\ ~result.success
                  /\ result.step_results = step_results

\* a finished run of a two-step script whose first step failed completely
C2_Witness ==
    /\ pc = "done"
    /\ Len(wf) = 2
    /\ FailedCompletely(0)
    /\ Len(result.step_results) = 1
    /\ ~result.success

\* the agent outcomes that are a failed invocation: it raised, returned an empty
\* history, or its last result is judged unsuccessful
FailedOutcomes == {"raise", "empty", "success_false", "success_none", "content_failed"}

\* C3: if the replay of a step fails and the agent invocation for it raises, returns
\* an empty history or is judged unsuccessful, the step's outcome is failure, nothing
\* is captured or written back for it, and the run reports overall success = false.
C3_AgentFailureIsStepFailure ==
    \A k \in LogIdx :
        log[k].ev = "agent" /\ log[k].detail \in FailedOutcomes =>
            LET i == log[k].i
            IN  /\ ~log[k].ok
                /\ ~Logged("update", i)
                /\ i \notin Range(fallback_steps)
                /\ pc = "record" => ~ret.success /\ ret.updated_step = NoStep
                /\ pc \in {"finish", "done"} =>
                      /\ ~overall_success
                      /\ step_results[Len(step_results)] = StepResult(i, FALSE, "unknown")
                /\ pc = "done" => ~result.success
                /\ k = Len(log) \/ pc = "done"

\* a finished run in which the agent returned an empty history for step 0
C3_Witness ==
    /\ pc = "done"
    /\ \E k \in LogIdx : log[k].ev = "agent" /\ log[k].i = 0 /\ log[k].detail = "empty"
    /\ ~result.success
    /\ result.execution_method = "workflow-use-with-fallback"

\* C5 as stated: if the write-back fails for any step completed by agent fallback,
\* that step's success stands and the run reports workflow_updated = false; and
\* workflow_updated = true is never reported unless an update was written.
C5_AsStated ==
    pc = "done" /\ "workflow_updated" \in result.keys =>
        /\ \A k \in LogIdx :
              log[k].ev = "update" /\ ~log[k].ok =>
                  /\ \E m \in 1..Len(result.step_results) :
                        /\ result.step_results[m].step_index = log[k].i
                        /\ result.step_results[m].success
                  /\ ~result.workflow_updated
        /\ result.workflow_updated => \E k \in LogIdx : log[k].ev = "update" /\ log[k].ok

RECURSIVE lex_leq(_, _)
\* lexicographic order on sequences of numbers, a proper prefix being smaller
lex_leq(a, b) ==
    IF a = <<>> THEN TRUE
    ELSE IF b = <<>> THEN FALSE
    ELSE IF Head(a) # Head(b) THEN Head(a) < Head(b)
    ELSE lex_leq(Tail(a), Tail(b))

NumericVersion(v) == \A i \in 1..Len(split_dot(v)) : int_ok(split_dot(v)[i])

VersionKey(v) == [i \in 1..Len(split_dot(v)) |-> int_of(split_dot(v)[i])]

Readable(f) == f.exists /\ ~f.corrupt

\* C6 as stated: over any sequence of runs against the same path the version stored
\* in the script never decreases, and it strictly increases whenever the script is
\* rewritten with other content.
C6_AsStated ==
    [][Readable(file) /\ Readable(file') /\ file' # file
       /\ NumericVersion(file.version) /\ NumericVersion(file'.version)
         => /\ lex_leq(VersionKey(file.version), VersionKey(file'.version))
            /\ file'.version # file.version]_vars

WholeDocument(f) == Readable(f) /\ Len(f.steps) > 0 /\ Len(f.version) > 0

C10_SaveOnlyOnSuccessVerdict ==
    [][pc = "agent_full"
         => LET verdicts == {log'[k].ok : k \in {j \in 1..Len(log') : log'[j].ev = "verdict"}}
            IN  /\ file' # file => verdicts = {TRUE}
                /\ FALSE \in verdicts => file' = file /\ ~result'.success]_vars

\* a finished full-agent run whose verdict was failure
C10_Witness ==
    /\ pc = "done"
    /\ \E k \in LogIdx : log[k] = Event("verdict", 0, FALSE, "")
    /\ result.execution_method = "browser-use-first-time"
    /\ ~result.success /\ ~result.workflow_captured

----------------------------------------------------------------------------
(* FallbackManager._extract_step_from_gherkin (SpecExtract) *)

MaxScenarioLines == 4

\* the stand-alone calls run with no script file, no update and no run under way
Standalone ==
    /\ file = NoFile
    /\ prevFile = NoFile
    /\ lastUpdate = NoUpdate
    /\ replaced = {}
    /\ calls = 0
    /\ RunIdle

\* ['Given', 'When', 'Then', 'And', 'But']: what a step line starts with
Keywords == {"Given", "When", "Then", "And", "But"}

\* a line of the scenario, stripped, stands for what it starts with: a header, a
\* keyword, a comment sign, other text, or nothing (a blank line)
LineAlphabet == {"Feature:", "Scenario:", "Given", "And", "text", "#", ""}

RECURSIVE scan_lines(_, _, _, _, _)
\* the for loop over the lines, from line pos on; step_lines holds the positions of
\* the lines appended so far
scan_lines(ls, pos, current_step, step_lines, index) ==
    IF pos > Len(ls) THEN step_lines
    ELSE LET line == ls[pos]
         IN  IF line = "" \/ line = "#"
             THEN scan_lines(ls, pos + 1, current_step, step_lines, index)
             ELSE IF line \in Keywords
             THEN IF current_step = index
                  THEN \* append; continue: current_step keeps its value
                       scan_lines(ls, pos + 1, current_step, Append(step_lines, pos), index)
                  ELSE IF current_step > index
                  THEN step_lines                           \* break
                  ELSE scan_lines(ls, pos + 1, current_step + 1, step_lines, index)
             ELSE IF step_lines # <<>>
             THEN scan_lines(ls, pos + 1, current_step, Append(step_lines, pos), index)
             ELSE scan_lines(ls, pos + 1, current_step, step_lines, index)

\* position of the first line with that start, 0 when there is none (the default
\* header line is used then)
first_line(ls, start) ==
    IF \E p \in 1..Len(ls) : ls[p] = start
    THEN CHOOSE p \in 1..Len(ls) : ls[p] = start /\ \A q \in 1..(p - 1) : ls[q] # start
    ELSE 0

\* the sub-scenario returned: header lines and step lines by their positions in the
\* scenario, or None
_extract_step_from_gherkin(ls, index) ==
    LET step_lines == scan_lines(ls, 1, 0, <<>>, index)
    IN  IF step_lines # <<>>
        THEN [none |-> FALSE,
              feature_line |-> first_line(ls, "Feature:"),
              scenario_line |-> first_line(ls, "Scenario:"),
              step_lines |-> step_lines]
        ELSE NoSubScenario

InitExtract ==
    /\ Standalone
    /\ ResolveIdle
    /\ ClassifyIdle
    /\ CaptureIdle
    /\ TokenIdle
    /\ lines \in UNION {[1..n -> LineAlphabet] : n \in 0..MaxScenarioLines}
    /\ extracted = NoExtract

ExtractStep(index) ==
    /\ extracted' = [called |-> TRUE, step_index |-> index,
                     ret |-> _extract_step_from_gherkin(lines, index)]
    /\ UNCHANGED <<file, calls, prevFile, lastUpdate, replaced, runVars, lines, resolveVars,
                   classifyVars, captureVars, tokenVars>>

NextExtract == \E index \in 0..MaxScenarioLines : ExtractStep(index)

SpecExtract == InitExtract /\ [][NextExtract]_vars

\* positions of the step (keyword) lines of the scenario, in order
KeywordLines(ls) == {p \in 1..Len(ls) : ls[p] \in Keywords}

\* position of the step line of index i (0-based)
StepLine(ls, i) ==
    CHOOSE p \in KeywordLines(ls) : Cardinality({q \in KeywordLines(ls) : q < p}) = i

\* C11 as stated: for every step index i smaller than the number of step lines the
\* extracted sub-scenario is a header followed by the i-th step's keyword line and
\* the continuation lines before the next keyword line; it holds the keyword line of
\* no other step.
C11_AsStated ==
    extracted.called /\ extracted.step_index < Cardinality(KeywordLines(lines)) =>
        LET i == extracted.step_index
            own == StepLine(lines, i)
        IN  /\ ~extracted.ret.none
            /\ Head(extracted.ret.step_lines) = own
            /\ \A k \in 1..Len(extracted.ret.step_lines) :
                  LET p == extracted.ret.step_lines[k]
                  IN  /\ p \in KeywordLines(lines) => p = own
                      /\ \A q \in KeywordLines(lines) : q > own => p < q

----------------------------------------------------------------------------
(* Termination and order of a run (SpecLive) *)

\* every await of a run returns: the agent stops at its cap, a replayed action at its
\* timeout, so a run that can take a step takes one
\* the runs followed to their end start from no script or from a script of MaxSteps
\* steps (input, click, select_change, ...)
LiveInitFiles ==
    {NoFile,
     ScriptFile(V100, [i \in 1..MaxSteps |-> StepOf(KindCycle[(i % 6) + 1], "file")], <<>>)}

InitLive ==
    /\ file \in LiveInitFiles
    /\ prevFile = file
    /\ lastUpdate = NoUpdate
    /\ replaced = {}
    /\ calls = 0
    /\ RunIdle
    /\ CallIdle

SpecLive == InitLive /\ [][Next]_vars /\ WF_vars(Next)

\* the events of kind ev of the log, in order
EventsOf(ev) == SelectSeq(log, LAMBDA e : e.ev = ev)

\* the caps and the loop: the agent of a step fallback takes at most 5 steps, the
\* agent of a full-scenario run at most 50; each step is replayed at most once, sent
\* to the agent at most once and written back at most once, the replays going
\* through the indices 0, 1, 2, ... of the script; the loop is left after the last
\* step or after a failure; a finished run has a result.
C12_Bounded ==
    /\ Logged("agent", step_index) \/ (\E k \in LogIdx : log[k].ev = "agent") =>
          agent_run.max_steps = 5 /\ agent_run.n_steps <= 5
    /\ pc = "done" /\ (\E k \in LogIdx : log[k].ev = "agent_full") =>
          agent_run.max_steps = 50 /\ agent_run.n_steps <= 50
    /\ \A k \in 1..Len(EventsOf("replay")) :
          EventsOf("replay")[k].i = k - 1 /\ k <= Len(wf)
    /\ \A ev \in {"agent", "update"} :
          \A k, m \in 1..Len(EventsOf(ev)) :
              k < m => EventsOf(ev)[k].i < EventsOf(ev)[m].i
    /\ pc = "finish" => step_index = Len(wf) \/ ~overall_success
    /\ pc = "done" => result.keys # {}

StepEvents == {"replay", "agent", "update"}

\* the order of the operations of one step
Rank(ev) == CASE ev = "replay" -> 1 [] ev = "agent" -> 2 [] ev = "update" -> 3 [] OTHER -> 0

\* C13: within one run the steps execute in strictly increasing index order and one
\* operation at a time: the operations of the log are ordered by step and, within a
\* step, replay before agent before write-back; while an operation of step i is
\* awaited no operation of a later step has started; and the replay of a step starts
\* only after every earlier step has been replayed and, where it was done by the
\* agent with a captured step, written back.
C13_Sequential ==
    /\ \A k, m \in LogIdx :
          k < m /\ log[k].ev \in StepEvents /\ log[m].ev \in StepEvents =>
              \/ log[k].i < log[m].i
              \/ log[k].i = log[m].i /\ Rank(log[k].ev) < Rank(log[m].ev)
    /\ pc \in {"replay", "fallback", "record", "persist"} =>
          \A k \in LogIdx : log[k].ev \in StepEvents => log[k].i <= step_index
    /\ pc = "replay" =>
          /\ \A ev \in StepEvents : ~Logged(ev, step_index)
          /\ \A j \in 0..(step_index - 1) :
                /\ Logged("replay", j)
                /\ j \in Range(fallback_steps) <=> Logged("update", j)
    /\ pc = "fallback" =>
          log[Len(log)] \in {Event("replay", step_index, FALSE, m) : m \in ReplayMessages(wf[step_index + 1].type)}
    /\ pc = "persist" =>
          /\ log[Len(log)].ev = "agent" /\ log[Len(log)].i = step_index /\ log[Len(log)].ok
          /\ ~Logged("update", step_index)

\* the replay of step 1 is about to start, step 0 having been replayed, done by the
\* agent and written back
C13_Witness ==
    /\ pc = "replay"
    /\ step_index = 1
    /\ Logged("replay", 0) /\ Logged("agent", 0) /\ Logged("update", 0)

----------------------------------------------------------------------------
(* controller/utils.py: get_best_element_handle (SpecResolve) *)

MaxFallbacks == 2

\* the selector arguments followed: one with an id attribute, one with a name
\* attribute, a tag with a class, a bare id selector, one with an id and a
\* data-testid attribute
OriginalSelectors ==
    {"input[id=\"a\"]", "input[name=\"n\"]", "div.b", "#a", "input[id=\"a\"][data-testid=\"t\"]"}

\* faulty variant: the data attributes are searched before the id
optimize_complex_selector_testid_first(selector) ==
    CASE selector = "input[id=\"a\"][data-testid=\"t\"]" -> "[data-testid='t']"
      [] selector = "input[id=\"a\"]" -> "#a"
      [] selector = "input[name=\"n\"]" -> "input[name='n']"
      [] OTHER -> "None"

\* optimize_complex_selector on OriginalSelectors: the search for [id="..."] comes
\* first and returns "#a", whatever else the selector holds; [name="n"] gives
\* tag[name='n'] with the tag of the selector; the data-cy and data-testid searches
\* come after both; neither attribute nor a long nth-of-type chain: None
optimize_complex_selector(selector) ==
    CASE selector \in {"input[id=\"a\"]", "input[id=\"a\"][data-testid=\"t\"]"} -> "#a"
      [] selector = "input[name=\"n\"]" -> "input[name='n']"
      [] OTHER -> "None"

\* generate_stable_selectors on what it is handed here (the optimized selector, or
\* the original one when there is none): a name attribute gives tag[name*="n"]; a
\* tag with a class gives tag.class; "#a" has no tag, class or attribute
generate_stable_selectors(selector) ==
    CASE selector = "input[name='n']" -> <<"input[name*=\"n\"]">>
      [] selector = "div.b" -> <<"div.b">>
      [] OTHER -> <<>>

\* faulty variant: the stored fallbacks of the params come before the optimized and
\* the original selector
selectors_to_try_stored_first(selector, params) ==
    LET optimized_selector == optimize_complex_selector(selector)
    IN  (IF params.primarySelector # "None" THEN <<params.primarySelector>> ELSE <<>>)
        \o (IF params.semanticSelector # "None" THEN <<params.semanticSelector>> ELSE <<>>)
        \o params.fallbackSelectors
        \o (IF optimized_selector # "None" /\ optimized_selector # selector
            THEN <<optimized_selector>> ELSE <<>>)
        \o <<selector>>
        \o generate_stable_selectors(IF optimized_selector # "None"
                                     THEN optimized_selector ELSE selector)

\* lines 16-40: the list of selectors to try, in the order of their priority
selectors_to_try(selector, params) ==
    LET optimized_selector == optimize_complex_selector(selector)
    IN  (IF params.primarySelector # "None" THEN <<params.primarySelector>> ELSE <<>>)
        \o (IF params.semanticSelector # "None" THEN <<params.semanticSelector>> ELSE <<>>)
        \o (IF optimized_selector # "None" /\ optimized_selector # selector
            THEN <<optimized_selector>> ELSE <<>>)
        \o <<selector>>
        \o params.fallbackSelectors
        \o generate_stable_selectors(IF optimized_selector # "None"
                                     THEN optimized_selector ELSE selector)

\* faulty variant: the loop goes on and keeps the last selector that is visible
last_visible(selectors, visible) ==
    IF \E k \in 1..Len(selectors) : selectors[k] \in visible
    THEN CHOOSE k \in 1..Len(selectors) :
            selectors[k] \in visible /\ \A m \in (k + 1)..Len(selectors) : selectors[m] \notin visible
    ELSE 0

\* lines 43-61: the index of the selector at which the loop returns, 0 when
\* wait_for raises for every one of them
first_visible(selectors, visible) ==
    IF \E k \in 1..Len(selectors) : selectors[k] \in visible
    THEN CHOOSE k \in 1..Len(selectors) :
            selectors[k] \in visible /\ \A m \in 1..(k - 1) : selectors[m] \notin visible
    ELSE 0

\* f'xpath={try_xpath}'
xpath_selector(xpath) ==
    CASE xpath = "//x" -> "xpath=//x"
      [] xpath = "id(\"a\")/x" -> "xpath=id(\"a\")/x"
      [] xpath = "//input[contains(@name, 'n')]" -> "xpath=//input[contains(@name, 'n')]"
      [] OTHER -> "None"

\* generate_stable_xpaths: alternatives only for an xpath holding "id(" with an
\* elementTag, one per attribute among placeholder, aria-label, title, name that
\* params.cssSelector holds (of OriginalSelectors only input[name="n"] holds one)
generate_stable_xpaths(xpath, elementTag, cssSelector) ==
    IF xpath = "id(\"a\")/x" /\ elementTag = "input" /\ cssSelector = "input[name=\"n\"]"
    THEN <<"//input[contains(@name, 'n')]">>
    ELSE <<>>

\* xpath_alternatives = [xpath] + generate_stable_xpaths(xpath, params)
xpath_alternatives(params, cssSelector) ==
    IF params.xpath = "None" THEN <<>>
    ELSE <<params.xpath>> \o generate_stable_xpaths(params.xpath, params.elementTag, cssSelector)

\* lines 68-77: the xpaths wait_for is called with. The loop over the alternatives
\* lies inside one try: it returns at an xpath that is visible, and the first
\* wait_for that raises leaves the loop for the except clause.
xpaths_tried(alternatives, visible) ==
    IF alternatives = <<>> THEN <<>> ELSE <<alternatives[1]>>

\* def get_best_element_handle(page, selector, params=None, timeout_ms=500)
default_timeout_ms == 500

\* service.py: every controller action passes timeout_ms=DEFAULT_ACTION_TIMEOUT_MS
DEFAULT_ACTION_TIMEOUT_MS == 5000

min(a, b) == IF a <= b THEN a ELSE b

\* lines 43-52: the timeout of the i-th selector of the list, i counted from 0
current_timeout(i, timeout_ms) ==
    IF i = 0 THEN timeout_ms
    ELSE IF i <= 2 THEN min((timeout_ms * 6) \div 10, 3000)
    ELSE IF i <= 4 THEN min((timeout_ms * 4) \div 10, 2000)
    ELSE min((timeout_ms * 2) \div 10, 1000)

\* faulty variant: the failure names the last selector tried
reported_selector_last(original_selector, selectors) == selectors[Len(selectors)]

\* raise Exception(f'Failed to find element. Original: {original_selector}')
reported_selector(original_selector, selectors) == original_selector

\* the outcome of get_best_element_handle: the selector returned or the selector
\* named in the exception, and the selectors wait_for was called with, in order,
\* each with its timeout
get_best_element_handle(visible, selector, params, timeout_ms) ==
    LET selectors == selectors_to_try(selector, params)
        k == first_visible(selectors, visible)
        xpaths == xpaths_tried(xpath_alternatives(params, selector), visible)
        xps == [m \in 1..Len(xpaths) |-> xpath_selector(xpaths[m])]
        slices == [m \in 1..Len(selectors) |-> current_timeout(m - 1, timeout_ms)]
    IN  IF k > 0
        THEN [called |-> TRUE, ok |-> TRUE, selector |-> selectors[k],
              attempts |-> SubSeq(selectors, 1, k), timeouts |-> SubSeq(slices, 1, k),
              reported |-> "None"]
        ELSE IF xps # <<>> /\ xps[Len(xps)] \in visible
        THEN [called |-> TRUE, ok |-> TRUE, selector |-> xps[Len(xps)],
              attempts |-> selectors \o xps,
              timeouts |-> slices \o [m \in 1..Len(xps) |-> timeout_ms],
              reported |-> "None"]
        ELSE [called |-> TRUE, ok |-> FALSE, selector |-> "None",
              attempts |-> selectors \o xps,
              timeouts |-> slices \o [m \in 1..Len(xps) |-> timeout_ms],
              reported |-> reported_selector(selector, selectors)]

FallbackNames == <<".f1", ".f2", ".f3", ".f4">>

\* the params followed: with or without a primary selector (one of them the
\* selector itself), a semantic selector, up to MaxFallbacks fallback selectors, an
\* xpath
ParamsChoices ==
    {[primarySelector |-> p, semanticSelector |-> s,
      fallbackSelectors |-> SubSeq(FallbackNames, 1, n), xpath |-> x[1], elementTag |-> x[2]] :
        p \in {"None", "#p", "#a"}, s \in {"None", "[aria-label='s']"},
        n \in 0..MaxFallbacks,
        x \in {<<"None", "">>, <<"//x", "">>, <<"id(\"a\")/x", "">>, <<"id(\"a\")/x", "input">>}}

\* the timeout_ms arguments followed: the controller's, one below and one above it
TimeoutChoices == {1000, DEFAULT_ACTION_TIMEOUT_MS, 10000}

\* the xpath selectors the call may wait for
XpathSelectors(d) ==
    {xpath_selector(xpath_alternatives(d.params, d.selector)[m]) :
        m \in 1..Len(xpath_alternatives(d.params, d.selector))}

InitResolve ==
    /\ Standalone
    /\ ExtractIdle
    /\ ClassifyIdle
    /\ CaptureIdle
    /\ TokenIdle
    /\ descriptor \in [selector : OriginalSelectors, params : ParamsChoices,
                       timeout_given : {TRUE}, timeout_ms : TimeoutChoices]
                      \cup [selector : OriginalSelectors, params : ParamsChoices,
                            timeout_given : {FALSE}, timeout_ms : {0}]
    /\ page \in SUBSET (Range(selectors_to_try(descriptor.selector, descriptor.params))
                        \cup XpathSelectors(descriptor))
    /\ resolved = NoResolve

Resolve ==
    /\ resolved' = get_best_element_handle(page, descriptor.selector, descriptor.params,
                                            IF descriptor.timeout_given
                                            THEN descriptor.timeout_ms ELSE default_timeout_ms)
    /\ UNCHANGED <<file, calls, prevFile, lastUpdate, replaced, runVars, extractVars,
                   descriptor, page, classifyVars, captureVars, tokenVars>>

NextResolve == Resolve

SpecResolve == InitResolve /\ [][NextResolve]_vars

Candidates == selectors_to_try(descriptor.selector, descriptor.params)

\* C14: the resolver attempts the candidates in list order and returns at the first
\* one that becomes visible: the selector returned is that candidate's text, the
\* attempts are the candidates up to and including it, none of the earlier ones
\* being visible, and neither a later candidate nor the xpath is attempted.
C14_FirstVisibleCandidate ==
    resolved.called /\ (\E k \in 1..Len(Candidates) : Candidates[k] \in page) =>
        LET n == Len(resolved.attempts)
        IN  /\ resolved.ok
            /\ n >= 1 /\ n <= Len(Candidates)
            /\ resolved.attempts = SubSeq(Candidates, 1, n)
            /\ resolved.selector = Candidates[n]
            /\ Candidates[n] \in page
            /\ \A k \in 1..(n - 1) : Candidates[k] \notin page
            /\ \A k \in 1..n : resolved.attempts[k] # xpath_selector(descriptor.params.xpath)

\* the third candidate is the only one visible and is the one returned, with a
\* fourth candidate and an xpath left untried
C14_Witness ==
    /\ resolved.called /\ resolved.ok
    /\ Len(Candidates) >= 4
    /\ descriptor.params.xpath # "None"
    /\ page = {Candidates[3]}
    /\ \A k \in {1, 2, 4} : Candidates[k] # Candidates[3]
    /\ resolved.selector = Candidates[3]
    /\ Len(resolved.attempts) = 3

NoMatchNoXpath ==
    /\ resolved.called
    /\ \A k \in 1..Len(Candidates) : Candidates[k] \notin page
    /\ descriptor.params.xpath = "None"

----------------------------------------------------------------------------
(* The classification of an agent transcript (SpecClassify): StepTracker,
   HybridTestRunner._analyze_results_with_smart_test, AssertionEvaluator *)

MaxTranscript == 2

MaxScenarioSteps == 2

MaxActions == 1

\* the step lines the scenarios are made of
StepTexts == {"Given I open the page", "When I click login"}

\* the extracted_content strings the transcripts are made of: explicit markers, one
\* of which repeats a step's text, failure phrases, a success phrase, error texts
\* and a text that says nothing
ContentStrings ==
    {"STEP_RESULT: PASSED - Navigated to page",
     "STEP_RESULT: FAILED - Login button not found",
     "STEP_RESULT: PASSED - I click login",
     "STEP_RESULT: FAILED - Execution incomplete",
     "Execution stopped at step 2 due to login failure",
     "Task completed successfully",
     "Clicked the button",
     "Authentication Error",
     "Error: blocker encountered",
     "Failed to parse model output"}

\* the results of the agent's actions: extracted_content, and success where the
\* result has this attribute with the value False
ActionResults ==
    {[extracted_content |-> c, success |-> "None"] : c \in ContentStrings}
    \cup {[extracted_content |-> "Clicked the button", success |-> "False"]}

\* re.search(p, s, re.IGNORECASE) for the strings s that occur and the words and
\* patterns p the code looks for (for a plain word: p in s.lower()); the pairs that
\* are not listed do not match
Matches ==
    {<<"STEP_RESULT: PASSED - Navigated to page", "STEP_RESULT: PASSED">>,
     <<"STEP_RESULT: PASSED - I click login", "STEP_RESULT: PASSED">>,
     <<"STEP_RESULT: FAILED - Login button not found", "failed">>,
     <<"STEP_RESULT: FAILED - Login button not found", "not found">>,
     <<"STEP_RESULT: FAILED - Execution incomplete", "failed">>,
     <<"STEP_RESULT: FAILED - Execution incomplete", "execution incomplete">>,
     <<"Execution incomplete", "execution incomplete">>,
     <<"Login button not found", "not found">>,
     <<"Execution stopped at step 2 due to login failure", "Execution stopped.*due to.*failure">>,
     <<"Task completed successfully", "Task completed successfully">>,
     <<"Task completed successfully", "task completed successfully">>,
     <<"Authentication Error", "error">>,
     <<"Authentication Error", "Authentication Error">>,
     <<"Error: blocker encountered", "error">>,
     <<"Error: blocker encountered", "blocker encountered">>,
     <<"Failed to parse model output", "failed">>,
     <<"Failed to parse model output", "failed to parse">>,
     <<"Action failed: Clicked the button", "failed">>,
     <<"Parsing error: Failed to parse model output", "error">>,
     <<"Parsing error: Failed to parse model output", "failed">>,
     <<"Parsing error: Failed to parse model output", "failed to parse">>}

\* any(p in s for p in patterns)
MatchesAny(s, patterns) == \E p \in patterns : <<s, p>> \in Matches

\* re.findall of the STEP_RESULT pattern in one content item, as (status, message)
\* pairs; the strings that occur hold no "Steps completed:" list and no
\* "Eval: Success -", which add ('PASSED', ...) pairs
step_result_matches(s) ==
    CASE s = "STEP_RESULT: PASSED - Navigated to page" -> << <<"PASSED", "Navigated to page">> >>
      [] s = "STEP_RESULT: FAILED - Login button not found" -> << <<"FAILED", "Login button not found">> >>
      [] s = "STEP_RESULT: PASSED - I click login" -> << <<"PASSED", "I click login">> >>
      [] s = "STEP_RESULT: FAILED - Execution incomplete" -> << <<"FAILED", "Execution incomplete">> >>
      [] OTHER -> <<>>

\* re.findall of STEP_START (also after "Next goal:") in one content item
step_start_matches(s) == <<>>

\* re.findall of STEP_FAILED in one content item, as ('FAILED', message) pairs
step_failed_matches(s) == <<>>

\* f"Action failed: {extracted_content}"
action_failed_text(c) == IF c = "Clicked the button" THEN "Action failed: Clicked the button" ELSE "Action failed"

\* f'Parsing error: {error}'
parsing_error_text(e) ==
    IF e = "Failed to parse model output" THEN "Parsing error: Failed to parse model output"
    ELSE "Parsing error"

\* StepTracker._steps_match on the step lines and messages that occur: the step text
\* without its keyword, lower-cased, is contained in the message, or the message in
\* it, or their word sets overlap by more than 0.6
_steps_match(gherkin_step, tracked_message) ==
    <<gherkin_step, tracked_message>> \in {<<"When I click login", "I click login">>}

\* StepTracker._parse_gherkin_steps: the lines that start with a step keyword
_parse_gherkin_steps(gherkin_lines) == SelectSeq(gherkin_lines, LAMBDA l : l \in StepTexts)

RECURSIVE convert_errors(_)
\* the errors list of _convert_agent_history_to_smart_test_format
convert_errors(results) ==
    IF results = <<>> THEN <<>>
    ELSE LET r == Head(results)
             c == r.extracted_content
         IN  (IF c # "" /\ MatchesAny(c, {"error", "failed", "timeout", "not found"})
              THEN <<c>> ELSE <<>>)
             \o (IF r.success = "False" THEN <<action_failed_text(c)>> ELSE <<>>)
             \o convert_errors(Tail(results))

\* HybridTestRunner._convert_agent_history_to_smart_test_format; each model output
\* is a dict with the action's name as its one key
_convert_agent_history_to_smart_test_format(results, n_outputs) ==
    [extracted_content |->
        [i \in 1..Len(SelectSeq(results, LAMBDA r : r.extracted_content # "")) |->
            SelectSeq(results, LAMBDA r : r.extracted_content # "")[i].extracted_content],
     model_actions |-> [i \in 1..n_outputs |-> "click_element_by_index"],
     errors |-> convert_errors(results)]

RECURSIVE concat_matches(_, _)
\* the pairs found in the content items, in order; kind names the pattern
concat_matches(kind, items) ==
    IF items = <<>> THEN <<>>
    ELSE (CASE kind = "result" -> step_result_matches(Head(items))
            [] kind = "start" -> step_start_matches(Head(items))
            [] kind = "failed" -> step_failed_matches(Head(items)))
         \o concat_matches(kind, Tail(items))

RECURSIVE _extract_browser_errors(_)
_extract_browser_errors(extracted_content) ==
    IF extracted_content = <<>> THEN <<>>
    ELSE (IF MatchesAny(Head(extracted_content),
                        {"element not found", "timeout", "failed to click", "failed to type",
                         "navigation failed", "page load failed"})
          THEN << <<"FAILED", "Browser action failed">> >> ELSE <<>>)
         \o _extract_browser_errors(Tail(extracted_content))

RECURSIVE _extract_parsing_errors(_)
_extract_parsing_errors(errors) ==
    IF errors = <<>> THEN <<>>
    ELSE (IF MatchesAny(Head(errors), {"failed to parse", "could not parse"})
          THEN << <<"FAILED", parsing_error_text(Head(errors))>> >>
          ELSE IF MatchesAny(Head(errors), {"result failed"})
          THEN << <<"FAILED", "Agent execution failed">> >>
          ELSE <<>>)
         \o _extract_parsing_errors(Tail(errors))

\* StepTracker._process_explicit_step_tracking: the status of each step
_process_explicit_step_tracking(gherkin_steps, step_results_found, all_failures) ==
    LET messages == step_results_found \o all_failures
        has_overall_failure ==
            \E k \in 1..Len(messages) :
                MatchesAny(messages[k][2],
                           {"task completed without success", "blocker encountered",
                            "execution incomplete", "gherkin scenario execution incomplete"})
        default_status == IF has_overall_failure THEN "FAILED" ELSE "PASSED"
        \* the results that stand for step i: those that match its text, and the
        \* one at its own position
        hits(i) == {j \in 1..Len(step_results_found) :
                        _steps_match(gherkin_steps[i], step_results_found[j][2]) \/ i = j}
        first_hit(i) == CHOOSE j \in hits(i) : \A m \in hits(i) : j <= m
        tracked(i) ==
            IF hits(i) = {} THEN default_status
            ELSE IF has_overall_failure /\ step_results_found[first_hit(i)][1] = "PASSED"
            THEN default_status
            ELSE step_results_found[first_hit(i)][1]
        failed(i) == \E k \in 1..Len(all_failures) :
                        _steps_match(gherkin_steps[i], all_failures[k][2])
    IN  [i \in 1..Len(gherkin_steps) |-> IF failed(i) THEN "FAILED" ELSE tracked(i)]

\* the overall status _infer_step_results_from_actions works with: FAILED on any
\* error (final_status_indicators is no key of the history data)
inferred_overall_status(errors) == IF errors # <<>> THEN "FAILED" ELSE "PASSED"

\* parsing_failures, agent_failures or task_completion_failures is not empty
whole_run_failure(errors) ==
    \E k \in 1..Len(errors) :
        MatchesAny(errors[k], {"failed to parse", "could not parse", "result failed",
                               "task completed without success", "blocker encountered"})

\* faulty variant: the status stays the placeholder
resolve_inferred_keep(overall_status, whole_failure, is_last) == "INFERRED"

\* faulty variant: a failure of the whole run is not told apart
resolve_inferred_last_only(overall_status, whole_failure, is_last) ==
    IF overall_status = "FAILED" /\ is_last THEN "FAILED" ELSE "PASSED"

\* the status that replaces INFERRED
resolve_inferred(overall_status, whole_failure, is_last) ==
    IF overall_status = "FAILED"
    THEN IF whole_failure THEN "FAILED"
         ELSE IF is_last THEN "FAILED" ELSE "PASSED"
    ELSE "PASSED"

\* the status of step i read from the content item at its position, INFERRED
\* where there is no action or no content at this position
status_from_content(i, history_data) ==
    IF i <= Len(history_data.model_actions) /\ i <= Len(history_data.extracted_content)
    THEN IF MatchesAny(history_data.extracted_content[i], {"error", "failed"})
         THEN "FAILED" ELSE "PASSED"
    ELSE "INFERRED"

\* StepTracker._infer_step_results_from_actions: the status of each step
_infer_step_results_from_actions(gherkin_steps, history_data) ==
    [i \in 1..Len(gherkin_steps) |->
        IF status_from_content(i, history_data) = "INFERRED"
        THEN resolve_inferred(inferred_overall_status(history_data.errors),
                              whole_run_failure(history_data.errors),
                              i = Len(gherkin_steps))
        ELSE status_from_content(i, history_data)]

\* StepTracker.extract_step_results: the statuses and the way they were found
extract_step_results(history_data, gherkin_lines) ==
    LET gherkin_steps == _parse_gherkin_steps(gherkin_lines)
        all_content == history_data.extracted_content \o history_data.model_actions
        step_starts == concat_matches("start", all_content)
        step_results_found == concat_matches("result", all_content)
        all_failures == concat_matches("failed", all_content)
                        \o _extract_browser_errors(history_data.extracted_content)
                        \o _extract_parsing_errors(history_data.errors)
    IN  IF step_starts # <<>> \/ step_results_found # <<>> \/ all_failures # <<>>
        THEN [path |-> "explicit",
              statuses |-> _process_explicit_step_tracking(gherkin_steps, step_results_found,
                                                           all_failures)]
        ELSE [path |-> "inferred",
              statuses |-> _infer_step_results_from_actions(gherkin_steps, history_data)]

\* HybridTestRunner._analyze_results_with_smart_test: overall success and the steps
_analyze_results_with_smart_test(results, n_outputs, gherkin_lines) ==
    LET history_data == _convert_agent_history_to_smart_test_format(results, n_outputs)
        tracked == extract_step_results(history_data, gherkin_lines)
    IN  [by |-> "analyze",
         path |-> tracked.path,
         overall |-> \A i \in 1..Len(tracked.statuses) : tracked.statuses[i] # "FAILED",
         statuses |-> tracked.statuses]

\* AssertionEvaluator._extract_all_content: the content items that are joined
_extract_all_content(results) ==
    LET kept == SelectSeq(results, LAMBDA r : r.extracted_content # "")
    IN  [i \in 1..Len(kept) |-> kept[i].extracted_content]

\* AssertionEvaluator._analyze_step_results: the statuses of the STEP_RESULT
\* markers in order; the strings that occur hold no numbered step line
_analyze_step_results(content) ==
    LET found == concat_matches("result", content)
    IN  [i \in 1..Len(found) |-> found[i][1]]

\* AssertionEvaluator._analyze_assertions: the strings that occur hold no ASSERTION
\* marker and no "Then" line
_analyze_assertions(content) == <<>>

\* re.search(indicator, content, re.IGNORECASE) for one of the indicators
content_matches(content, indicators) ==
    \E k \in 1..Len(content) : MatchesAny(content[k], indicators)

\* AssertionEvaluator._determine_overall_success
_determine_overall_success(found_steps, assertion_results, content) ==
    IF content_matches(content, {"Execution stopped.*due to.*failure", "Authentication Error",
                                 "critical.*failure", "Unable to proceed"})
    THEN FALSE
    ELSE IF \E i \in 1..Len(found_steps) : found_steps[i] # "PASSED" THEN FALSE
    ELSE IF \E i \in 1..Len(assertion_results) : assertion_results[i] # "PASSED" THEN FALSE
    ELSE IF found_steps # <<>> \/ assertion_results # <<>> THEN TRUE
    ELSE IF content_matches(content, {"Successfully completed", "All steps completed",
                                      "Task completed successfully", "All assertions passed",
                                      "Scenario completed", "actions were completed successfully",
                                      "ready to close browser", "All steps executed successfully",
                                      "STEP_RESULT: PASSED"})
    THEN TRUE
    ELSE IF content_matches(content, {"all assertions passed.*successfully",
                                      "task completed successfully",
                                      "scenario completed.*ready to close"})
    THEN TRUE
    ELSE FALSE

\* AssertionEvaluator.evaluate_browser_use_results
evaluate_browser_use_results(results) ==
    IF results = <<>>
    THEN [by |-> "evaluate", path |-> "none", overall |-> FALSE, statuses |-> <<>>]
    ELSE LET content == _extract_all_content(results)
             found_steps == _analyze_step_results(content)
         IN  [by |-> "evaluate",
              path |-> "assertions",
              overall |-> _determine_overall_success(found_steps, _analyze_assertions(content),
                                                     content),
              statuses |-> found_steps]

\* the transcripts and the scenarios
Transcripts == UNION {[1..n -> ActionResults] : n \in 0..MaxTranscript}

Scenarios ==
    {<<"Feature: F", "Scenario: S">> \o steps :
        steps \in UNION {[1..n -> StepTexts] : n \in 0..MaxScenarioSteps}}

InitClassify ==
    /\ Standalone
    /\ ExtractIdle
    /\ ResolveIdle
    /\ CaptureIdle
    /\ TokenIdle
    /\ transcript \in Transcripts
    /\ scenario \in Scenarios
    /\ n_actions \in 0..MaxActions
    /\ classification = NoVerdict

\* test_runner.py:611: the verdict of a first run
Analyze ==
    /\ classification.by # "analyze"
    /\ classification' = _analyze_results_with_smart_test(transcript, n_actions, scenario)
    /\ UNCHANGED <<transcript, scenario, n_actions>>
    /\ UNCHANGED <<file, calls, prevFile, lastUpdate, replaced, runVars, extractVars, resolveVars,
                   captureVars, tokenVars>>

\* the evaluator the runner constructs (test_runner.py:175), applied to the history
Evaluate ==
    /\ classification.by # "evaluate"
    /\ classification' = evaluate_browser_use_results(transcript)
    /\ UNCHANGED <<transcript, scenario, n_actions>>
    /\ UNCHANGED <<file, calls, prevFile, lastUpdate, replaced, runVars, extractVars, resolveVars,
                   captureVars, tokenVars>>

NextClassify == Analyze \/ Evaluate

SpecClassify == InitClassify /\ [][NextClassify]_vars

----------------------------------------------------------------------------
(* Properties of the classification *)

\* the steps of the scenario and the history data of the transcript
Steps == _parse_gherkin_steps(scenario)

History == _convert_agent_history_to_smart_test_format(transcript, n_actions)

\* the failure phrases that are to dominate
FailurePhrases ==
    {"Execution stopped.*due to.*failure", "Authentication Error", "critical.*failure",
     "Unable to proceed"}

HasFailurePhrase ==
    \E k \in 1..Len(transcript) : MatchesAny(transcript[k].extracted_content, FailurePhrases)

\* C16: a failure phrase anywhere in the transcript makes the verdict of the run
\* FAILED, whatever PASSED markers or success phrases the transcript holds.
C16_AsStated ==
    (classification.by = "analyze" /\ HasFailurePhrase) => ~classification.overall

\* no marker, no failure or success word, no failed action
Silent ==
    \A k \in 1..Len(transcript) :
        /\ step_result_matches(transcript[k].extracted_content) = <<>>
        /\ \A p \in {m[2] : m \in Matches} : <<transcript[k].extracted_content, p>> \notin Matches
        /\ transcript[k].success # "False"

\* C17: a transcript without markers and keywords (an empty one, or one for a
\* scenario without steps, included) gets the verdict FAILED.
C17_AsStated ==
    (classification.by = "analyze" /\ Silent) => ~classification.overall

\* the marker of the transcript's k-th item
MarkerOf(k) == step_result_matches(transcript[k].extracted_content)

OneMarkerPerStep ==
    /\ Steps # <<>>
    /\ Len(transcript) = Len(Steps)
    /\ \A k \in 1..Len(transcript) : Len(MarkerOf(k)) = 1

\* C18: with one STEP_RESULT marker per step, in step order, each step has the
\* status of its own marker and the verdict is FAILED exactly if a marker is FAILED.
C18_AsStated ==
    (classification.by = "analyze" /\ OneMarkerPerStep) =>
        /\ Len(classification.statuses) = Len(Steps)
        /\ \A i \in 1..Len(Steps) : classification.statuses[i] = MarkerOf(i)[1][1]
        /\ classification.overall = ~(\E i \in 1..Len(Steps) : MarkerOf(i)[1][1] = "FAILED")

\* step i has neither a marker nor a content item of its own to read a status from
Unmarked(i) ==
    /\ classification.path = "inferred"
    /\ status_from_content(i, History) = "INFERRED"

\* the transcript reports a blocker or a task completed without success
WholeRunFailureReported ==
    \E k \in 1..Len(History.errors) :
        MatchesAny(History.errors[k], {"task completed without success", "blocker encountered"})

C20_DefiniteVerdict ==
    classification.by # "none" =>
        /\ classification.overall \in BOOLEAN
        /\ \A i \in 1..Len(classification.statuses) :
            classification.statuses[i] \in {"PASSED", "FAILED"}
        /\ classification.by = "analyze" => Len(classification.statuses) = Len(Steps)

C20_Witness ==
    /\ classification.by = "analyze"
    /\ \E i \in 1..Len(Steps) : Unmarked(i) /\ classification.statuses[i] \in {"PASSED", "FAILED"}

----------------------------------------------------------------------------
(* hybrid/simple_capture.py: the selectors made for an interacted element
   (SpecSynthesize) *)

MaxClasses == 2

\* the class names an element carries: a plain one, one that names a state, one
\* with the prefix of generated names, a short one
ClassNames == {"btn-primary", "active", "css-1x2y", "btn"}

\* cls.startswith('css-')
starts_with_css(cls) == cls = "css-1x2y"

\* len(cls)
class_len(cls) ==
    CASE cls = "btn-primary" -> 11
      [] cls = "active" -> 6
      [] cls = "css-1x2y" -> 8
      [] cls = "btn" -> 3

\* any(state in cls.lower() for state in ['focus', 'hover', 'active', 'selected',
\* 'checked', 'disabled'])
names_state(cls) == cls = "active"

TagNames == {"input", "button", "div"}

\* the elements: each attribute is absent ("") or has one value
Elements ==
    {NoElement} \cup
    [none : {FALSE},
     tag_name : TagNames,
     attributes : [data_testid : {"", "t"}, data_cy : {"", "c"}, id : {"", "i"},
                   name : {"", "n"}, type : {"", "text"}, placeholder : {"", "p"},
                   role : {"", "r"}, aria_label : {"", "l"},
                   class : UNION {[1..k -> ClassNames] : k \in 0..MaxClasses}],
     css_selector : {"", "html > body > div:nth-of-type(2)"},
     xpath : {"html/body/div[2]"}]

\* [cls for cls in classes if not cls.startswith('css-') and len(cls) > 3]
stable_classes(classes) ==
    SelectSeq(classes, LAMBDA cls : ~starts_with_css(cls) /\ class_len(cls) > 3)

\* seq[:2]
first_two(seq) == IF Len(seq) <= 2 THEN seq ELSE SubSeq(seq, 1, 2)

\* faulty variant: the id is looked at before the test ids
_get_element_selector_id_first(el) ==
    IF el.none THEN EmptySel
    ELSE IF el.attributes.id # "" THEN Sel("id", "", el.attributes.id, "", <<>>)
    ELSE IF el.attributes.data_testid # ""
    THEN Sel("data-testid", "", el.attributes.data_testid, "", <<>>)
    ELSE Sel("tag", el.tag_name, "", "", <<>>)

\* SimpleWorkflowCapture._get_element_selector; the element of the agent's history
\* has the attributes tag_name, xpath, attributes and css_selector, no id or name
\* of its own
_get_element_selector(el) ==
    LET attrs == el.attributes
        tag == el.tag_name
    IN  IF el.none THEN EmptySel
        ELSE IF attrs.data_testid # "" THEN Sel("data-testid", "", attrs.data_testid, "", <<>>)
        ELSE IF attrs.data_cy # "" THEN Sel("data-cy", "", attrs.data_cy, "", <<>>)
        ELSE IF attrs.id # "" THEN Sel("id", "", attrs.id, "", <<>>)
        ELSE IF attrs.name # "" THEN Sel("name", tag, attrs.name, "", <<>>)
        ELSE IF tag = "input" /\ attrs.type # ""
        THEN IF attrs.placeholder # ""
             THEN Sel("type+placeholder", "input", attrs.type, attrs.placeholder, <<>>)
             ELSE Sel("type", "input", attrs.type, "", <<>>)
        ELSE IF attrs.role # "" THEN Sel("role", "", attrs.role, "", <<>>)
        ELSE IF attrs.aria_label # "" THEN Sel("aria-label", "", attrs.aria_label, "", <<>>)
        ELSE IF attrs.class # <<>> /\ stable_classes(attrs.class) # <<>>
        THEN Sel("class", tag, "", "", first_two(stable_classes(attrs.class)))
        ELSE IF el.css_selector # "" THEN Sel("complex", "", el.css_selector, "", <<>>)
        ELSE Sel("tag", tag, "", "", <<>>)

\* SimpleWorkflowCapture._get_element_xpath
_get_element_xpath(el) == IF el.none THEN "None" ELSE el.xpath

\* the 'primary' entry of _generate_multi_strategy_selectors
primary_selector(attrs) ==
    IF attrs.data_testid # "" THEN Sel("data-testid", "", attrs.data_testid, "", <<>>)
    ELSE IF attrs.data_cy # "" THEN Sel("data-cy", "", attrs.data_cy, "", <<>>)
    ELSE IF attrs.id # "" THEN Sel("id", "", attrs.id, "", <<>>)
    ELSE NoneSel

\* the 'semantic' entry
semantic_selector(tag, attrs) ==
    IF attrs.name # "" THEN Sel("name", tag, attrs.name, "", <<>>)
    ELSE IF tag = "input" /\ attrs.type # "" THEN Sel("type", "input", attrs.type, "", <<>>)
    ELSE IF attrs.role # "" THEN Sel("role", "", attrs.role, "", <<>>)
    ELSE NoneSel

\* the 'fallbacks' entry
fallback_selectors(tag, attrs) ==
    (IF tag = "input" /\ attrs.type # ""
     THEN (IF attrs.placeholder # ""
           THEN <<Sel("type+placeholder", "input", attrs.type, attrs.placeholder, <<>>)>>
           ELSE <<>>)
          \o <<Sel("type", "input", attrs.type, "", <<>>)>>
     ELSE <<>>)
    \o (IF attrs.aria_label # "" THEN <<Sel("aria-label", "", attrs.aria_label, "", <<>>)>>
        ELSE <<>>)
    \o (IF attrs.class # <<>> /\ stable_classes(attrs.class) # <<>>
        THEN <<Sel("class", tag, "", "", first_two(stable_classes(attrs.class)))>>
        ELSE <<>>)
    \o (IF tag \in {"button", "a"} /\ attrs.aria_label # ""
        THEN <<Sel("has-text", tag, attrs.aria_label, "", <<>>)>>
        ELSE <<>>)

\* SimpleWorkflowCapture._generate_multi_strategy_selectors; has_keys is FALSE for
\* the empty dict, whose .get(...) is None for every key
_generate_multi_strategy_selectors(el) ==
    IF el.none
    THEN [has_keys |-> FALSE, primary |-> NoneSel, semantic |-> NoneSel, fallbacks |-> <<>>]
    ELSE [has_keys |-> TRUE,
          primary |-> primary_selector(el.attributes),
          semantic |-> semantic_selector(el.tag_name, el.attributes),
          fallbacks |-> fallback_selectors(el.tag_name, el.attributes)]

InitSynthesize ==
    /\ Standalone
    /\ ExtractIdle
    /\ ResolveIdle
    /\ ClassifyIdle
    /\ TokenIdle
    /\ element \in Elements
    /\ synthesized = NoSelectors
    /\ trace = <<>>
    /\ capture = NoCapture

\* simple_capture.py:378-381, 400-404: what a step takes from the element
Synthesize ==
    /\ ~synthesized.called
    /\ synthesized' =
        LET made == _generate_multi_strategy_selectors(element)
        IN  [called |-> TRUE,
             cssSelector |-> _get_element_selector(element),
             xpath |-> _get_element_xpath(element),
             primary |-> made.primary,
             semantic |-> made.semantic,
             fallbacks |-> made.fallbacks,
             has_keys |-> made.has_keys]
    /\ UNCHANGED <<element, trace, capture>>
    /\ UNCHANGED <<file, calls, prevFile, lastUpdate, replaced, runVars, extractVars, resolveVars,
                   classifyVars, tokenVars>>

NextSynthesize == Synthesize

SpecSynthesize == InitSynthesize /\ [][NextSynthesize]_vars

\* C22: an element with a data-testid gets the selector by this data-testid as its
\* primary selector and as its cssSelector, whatever else it carries.
C22_TestIdFirst ==
    (synthesized.called /\ ~element.none /\ element.attributes.data_testid # "") =>
        /\ synthesized.primary = Sel("data-testid", "", element.attributes.data_testid, "", <<>>)
        /\ synthesized.cssSelector = synthesized.primary

C22_Witness ==
    /\ synthesized.called
    /\ ~element.none
    /\ element.attributes.data_testid # ""
    /\ element.attributes.id # ""
    /\ element.attributes.name # ""
    /\ element.attributes.role # ""
    /\ element.attributes.aria_label # ""
    /\ element.attributes.class # <<>>
    /\ synthesized.primary.kind = "data-testid"

\* a selector that is neither None nor the empty string
Usable(s) == s.kind \notin {"None", "empty"}

\* the selectors a step made from the element carries, in the order in which
\* get_best_element_handle tries them (controller/utils.py:19-36)
CandidateList ==
    SelectSeq(<<synthesized.primary, synthesized.semantic, synthesized.cssSelector>>, Usable)
    \o synthesized.fallbacks

\* C23: no candidate made of a tag and classes holds a class that names a state
\* (focus, hover, active, selected, checked, disabled).
C23_AsStated ==
    synthesized.called =>
        \A k \in 1..Len(CandidateList) :
            CandidateList[k].kind = "class" =>
                \A c \in 1..Len(CandidateList[k].classes) :
                    ~names_state(CandidateList[k].classes[c])

\* C24: for every element, a missing one included, the candidates are not empty
\* and the last one is the tag name alone.
C24_AsStated ==
    synthesized.called =>
        /\ CandidateList # <<>>
        /\ CandidateList[Len(CandidateList)].kind = "tag"

----------------------------------------------------------------------------
(* hybrid/simple_capture.py: the steps extracted from the agent's actions
   (SpecCapture) *)

MaxTrace == 2

\* the actions of the agent that act on the browser, and its bookkeeping actions
ReplayableActions ==
    {"go_to_url", "input_text", "click_element_by_index", "send_keys", "scroll_down",
     "select_dropdown_option"}

BookkeepingActions == {"done", "wait", "extract_content"}

ActionNames == ReplayableActions \cup BookkeepingActions

\* the step variant that stands for an action
variant_of(action_name) ==
    CASE action_name = "go_to_url" -> "navigation"
      [] action_name = "input_text" -> "input"
      [] action_name = "click_element_by_index" -> "click"
      [] action_name = "send_keys" -> "key_press"
      [] action_name = "scroll_down" -> "scroll"
      [] action_name = "select_dropdown_option" -> "select_change"
      [] OTHER -> "none"

\* the interacted elements of the actions: none, one without attributes, one with
\* a data-testid and a name
TraceElements ==
    {NoElement,
     [none |-> FALSE, tag_name |-> "div", attributes |-> NoAttrs, css_selector |-> "",
      xpath |-> "html/body/div[2]"],
     [none |-> FALSE, tag_name |-> "input",
      attributes |-> [NoAttrs EXCEPT !.data_testid = "t", !.name = "n"],
      css_selector |-> "", xpath |-> "html/body/div[2]"]}

\* no step: the None of _convert_browser_action_to_step
NoCapturedStep ==
    [type |-> "none", cssSelector |-> EmptySel, xpath |-> "None", primarySelector |-> NoneSel,
     semanticSelector |-> NoneSel, fallbackSelectors |-> <<>>]

\* the construction of a step by the step model: a step that is not a navigation
\* and has no locator at all is invalid
step_is_valid(step) ==
    \/ step.type = "navigation"
    \/ Usable(step.cssSelector)
    \/ step.xpath # "None"
    \/ Usable(step.primarySelector)
    \/ Usable(step.semanticSelector)
    \/ step.fallbackSelectors # <<>>

\* the step of lines 366-418 before its construction is checked
step_for(action_name, el) ==
    IF action_name = "go_to_url"
    THEN [NoCapturedStep EXCEPT !.type = "navigation"]
    ELSE LET made == _generate_multi_strategy_selectors(el)
         IN  [type |-> IF action_name = "input_text" THEN "input" ELSE "click",
              cssSelector |-> _get_element_selector(el),
              xpath |-> _get_element_xpath(el),
              primarySelector |-> made.primary,
              semanticSelector |-> made.semantic,
              fallbackSelectors |-> made.fallbacks]

\* faulty variant: the step is returned as it is, whatever its construction says
_convert_browser_action_to_step_unchecked(action_name, el) ==
    IF action_name \in {"go_to_url", "input_text", "click_element_by_index"}
    THEN step_for(action_name, el)
    ELSE NoCapturedStep

\* SimpleWorkflowCapture._convert_browser_action_to_step: an exception of the
\* construction is caught and gives None, as any other action name does
_convert_browser_action_to_step(action_name, el) ==
    IF action_name \in {"go_to_url", "input_text", "click_element_by_index"}
    THEN IF step_is_valid(step_for(action_name, el))
         THEN step_for(action_name, el)
         ELSE NoCapturedStep
    ELSE NoCapturedStep

RECURSIVE _extract_steps_from_agent_history(_)
\* SimpleWorkflowCapture._extract_steps_from_agent_history: the steps of the model
\* actions in their order, those converted to None left out
_extract_steps_from_agent_history(model_actions) ==
    IF model_actions = <<>> THEN <<>>
    ELSE LET step == _convert_browser_action_to_step(Head(model_actions).action_name,
                                                     Head(model_actions).interacted_element)
         IN  (IF step.type # "none" THEN <<step>> ELSE <<>>)
             \o _extract_steps_from_agent_history(Tail(model_actions))

InitCapture ==
    /\ Standalone
    /\ ExtractIdle
    /\ ResolveIdle
    /\ ClassifyIdle
    /\ TokenIdle
    /\ element = NoElement
    /\ synthesized = NoSelectors
    /\ trace \in UNION {[1..n -> [action_name : ActionNames, interacted_element : TraceElements]] :
                            n \in 0..MaxTrace}
    /\ capture = NoCapture

ExtractSteps ==
    /\ ~capture.called
    /\ capture' = [called |-> TRUE, steps |-> _extract_steps_from_agent_history(trace)]
    /\ UNCHANGED <<element, synthesized, trace>>
    /\ UNCHANGED <<file, calls, prevFile, lastUpdate, replaced, runVars, extractVars, resolveVars,
                   classifyVars, tokenVars>>

NextCapture == ExtractSteps

SpecCapture == InitCapture /\ [][NextCapture]_vars

\* the replayable actions of the trace, in their order
ReplayableOfTrace == SelectSeq(trace, LAMBDA a : a.action_name \in ReplayableActions)

\* C25: the captured steps are the variants of the replayable actions of the
\* trace, one per action and in the order of the trace; done, wait and
\* extract_content give no step.
C25_AsStated ==
    (capture.called /\ \A k \in 1..Len(trace) : ~trace[k].interacted_element.none) =>
        /\ Len(capture.steps) = Len(ReplayableOfTrace)
        /\ \A k \in 1..Len(capture.steps) :
            capture.steps[k].type = variant_of(ReplayableOfTrace[k].action_name)

\* an action on an element that yields no selector and no xpath
ZeroLocators(a) ==
    /\ a.action_name \in {"input_text", "click_element_by_index"}
    /\ ~Usable(_get_element_selector(a.interacted_element))
    /\ _get_element_xpath(a.interacted_element) = "None"
    /\ ~Usable(primary_selector(a.interacted_element.attributes))
    /\ ~Usable(semantic_selector(a.interacted_element.tag_name, a.interacted_element.attributes))

----------------------------------------------------------------------------
(* TokenTracker: recording into the shared _global_tracker (SpecTokens) *)

\* the number of callers that record into the tracker side by side
MaxTasks == 2

\* a priced model and the name the fallback path uses when the llm has no model_name
ModelNames == {"gpt-4", "browser-use-fallback"}

TokenCounts == {1, 2}

\* the arguments of one track_llm_call(model_name, input_tokens, output_tokens)
LlmCalls == [model_name : ModelNames, input_tokens : TokenCounts, output_tokens : {1}]

\* ModelUsage(model_name=model_name): a fresh object; bound says whether
\* self.model_usage[model_name] is this object (total_cost is accumulated like the
\* token counts and is left out)
ModelUsage(model_name) ==
    [model_name |-> model_name, total_input_tokens |-> 0, total_output_tokens |-> 0,
     total_tokens |-> 0, call_count |-> 0, bound |-> TRUE]

\* model_name in self.model_usage
in_model_usage(model_name) ==
    \E i \in 1..Len(model_usage) : model_usage[i].model_name = model_name /\ model_usage[i].bound

\* self.model_usage[model_name]: the object the dict holds under the name
lookup(model_name) ==
    CHOOSE i \in 1..Len(model_usage) :
        model_usage[i].model_name = model_name /\ model_usage[i].bound

\* model.total_input_tokens += input_tokens ... model.call_count += 1
add_usage(model, input_tokens, output_tokens) ==
    [model EXCEPT !.total_input_tokens = @ + input_tokens,
                  !.total_output_tokens = @ + output_tokens,
                  !.total_tokens = @ + (input_tokens + output_tokens),
                  !.call_count = @ + 1]

\* every caller is about to call track_llm_call on the empty tracker
InitTokens ==
    /\ Standalone
    /\ ExtractIdle
    /\ ResolveIdle
    /\ ClassifyIdle
    /\ CaptureIdle
    /\ model_usage = <<>>
    /\ tasks \in UNION {[1..n -> [pc : {"call"}, call : LlmCalls]] : n \in 1..MaxTasks}
    /\ recorded = <<>>

\* track_llm_call up to the test "if model_name not in self.model_usage"
CheckModel(t) ==
    /\ tasks[t].pc = "call"
    /\ tasks' = [tasks EXCEPT ![t].pc = IF in_model_usage(tasks[t].call.model_name)
                                        THEN "add" ELSE "create"]
    /\ UNCHANGED <<model_usage, recorded>>
    /\ UNCHANGED <<file, calls, prevFile, lastUpdate, replaced, runVars, extractVars, resolveVars,
                   classifyVars, captureVars>>

\* self.model_usage[model_name] = ModelUsage(model_name=model_name): the store
\* follows the constructor call, where another thread may have run since the test
CreateModel(t) ==
    /\ tasks[t].pc = "create"
    /\ model_usage' =
          Append([i \in 1..Len(model_usage) |->
                     IF model_usage[i].model_name = tasks[t].call.model_name
                     THEN [model_usage[i] EXCEPT !.bound = FALSE]
                     ELSE model_usage[i]],
                 ModelUsage(tasks[t].call.model_name))
    /\ tasks' = [tasks EXCEPT ![t].pc = "add"]
    /\ UNCHANGED recorded
    /\ UNCHANGED <<file, calls, prevFile, lastUpdate, replaced, runVars, extractVars, resolveVars,
                   classifyVars, captureVars>>

\* model = self.model_usage[model_name] and the five += on it, then return usage
AddUsage(t) ==
    /\ tasks[t].pc = "add"
    /\ LET c == tasks[t].call
           i == lookup(c.model_name)
       IN  model_usage' = [model_usage EXCEPT
                              ![i] = add_usage(@, c.input_tokens, c.output_tokens)]
    /\ recorded' = Append(recorded, tasks[t].call)
    /\ tasks' = [tasks EXCEPT ![t].pc = "done"]
    /\ UNCHANGED <<file, calls, prevFile, lastUpdate, replaced, runVars, extractVars, resolveVars,
                   classifyVars, captureVars>>

NextTokens ==
    \/ \E t \in 1..Len(tasks) : CheckModel(t)
    \/ \E t \in 1..Len(tasks) : CreateModel(t)
    \/ \E t \in 1..Len(tasks) : AddUsage(t)

\* callers on threads of one process: a switch may fall between any two steps
SpecTokens == InitTokens /\ [][NextTokens]_vars

RECURSIVE recorded_sum(_, _, _)
\* the sum of one field over the recorded calls of a model ("call_count": their number)
recorded_sum(history, model_name, field) ==
    IF history = <<>>
    THEN 0
    ELSE (IF Head(history).model_name # model_name THEN 0
          ELSE IF field = "call_count" THEN 1
          ELSE IF field = "total_tokens"
          THEN Head(history).input_tokens + Head(history).output_tokens
          ELSE Head(history)[field])
         + recorded_sum(Tail(history), model_name, field)

----------------------------------------------------------------------------
(* The result of run_test (Spec) *)

\* C27: every run_test call returns a result with a boolean success and a
\* per-step outcome list (the step_results key), whatever failed inside.
C27_AsStated ==
    pc = "done" =>
        /\ result.success \in BOOLEAN
        /\ {"success", "step_results"} \subseteq result.keys

\* step i was completed: its replay succeeded or the agent invoked for it did
StepSucceeded(i) ==
    \E k \in LogIdx : log[k].ev \in {"replay", "agent"} /\ log[k].i = i /\ log[k].ok

\* C29: a replay run of an n-step script in which every step succeeded, by replay
\* or by agent fallback, reports overall success = true and n step_results entries,
\* one per step index in order.
C29_AsStated ==
    (/\ pc = "done"
     /\ result.execution_method = "workflow-use-with-fallback"
     /\ \A i \in 0..(Len(wf) - 1) : StepSucceeded(i)) =>
        /\ result.success
        /\ Len(result.step_results) = Len(wf)
        /\ \A k \in 1..Len(result.step_results) :
              /\ result.step_results[k].step_index = k - 1
              /\ result.step_results[k].success

\* the agent was invoked for step i and its run was judged successful
AgentSucceeded(i) == \E k \in LogIdx : log[k].ev = "agent" /\ log[k].i = i /\ log[k].ok

\* C30: in the result of a replay run, fallback_steps holds exactly the indices of
\* the steps for which the agent was invoked and succeeded: every step completed by
\* agent fallback and no step completed by replay.
C30_AsStated ==
    (pc = "done" /\ result.execution_method = "workflow-use-with-fallback") =>
        /\ Range(result.fallback_steps) = {i \in 0..(Len(wf) - 1) : AgentSucceeded(i)}
        /\ \A i \in Range(result.fallback_steps) : ~ReplaySucceeded(i)

----------------------------------------------------------------------------
(* Further properties of get_best_element_handle (SpecResolve) *)

\* the xpath selectors of the descriptor: the original xpath, then the generated
\* alternatives
XpathList ==
    LET alternatives == xpath_alternatives(descriptor.params, descriptor.selector)
    IN  [m \in 1..Len(alternatives) |-> xpath_selector(alternatives[m])]

\* the attempts made after the CSS candidates
XpathAttempts == SubSeq(resolved.attempts, Len(Candidates) + 1, Len(resolved.attempts))

\* the timeout the call works with
NominalTimeout ==
    IF descriptor.timeout_given THEN descriptor.timeout_ms ELSE default_timeout_ms

\* C31: when every CSS candidate has failed and the descriptor carries an xpath,
\* the original xpath and then each generated alternative are attempted in turn,
\* each with the nominal timeout; the call succeeds at the first one that resolves
\* and fails only after all of them have been attempted.
C31_AsStated ==
    (/\ resolved.called
     /\ \A k \in 1..Len(Candidates) : Candidates[k] \notin page
     /\ descriptor.params.xpath # "None") =>
        LET n == Len(XpathAttempts)
        IN  /\ n >= 1 /\ n <= Len(XpathList)
            /\ XpathAttempts = SubSeq(XpathList, 1, n)
            /\ \A m \in 1..n :
                  resolved.timeouts[Len(Candidates) + m] = NominalTimeout
            /\ \A m \in 1..(n - 1) : XpathList[m] \notin page
            /\ resolved.ok <=> \E m \in 1..Len(XpathList) : XpathList[m] \in page
            /\ resolved.ok => resolved.selector = XpathList[n] /\ XpathList[n] \in page
            /\ ~resolved.ok => n = Len(XpathList)

\* C32: within one call no selector text is attempted more than once.
C32_AsStated == resolved.called => NoDup(resolved.attempts)

\* where the list of selectors_to_try holds what: the stored candidates of the
\* params (primary, semantic, stored fallbacks) and the candidates synthesized
\* during the call (optimized selector, generated fallbacks)
StoredPositions ==
    LET ps == descriptor.params
        n_head == (IF ps.primarySelector # "None" THEN 1 ELSE 0)
                  + (IF ps.semanticSelector # "None" THEN 1 ELSE 0)
        opt == optimize_complex_selector(descriptor.selector)
        n_opt == IF opt # "None" /\ opt # descriptor.selector THEN 1 ELSE 0
    IN  (1..n_head) \cup ((n_head + n_opt + 2)..(n_head + n_opt + 1 + Len(ps.fallbackSelectors)))

FreshPositions ==
    LET ps == descriptor.params
        n_head == (IF ps.primarySelector # "None" THEN 1 ELSE 0)
                  + (IF ps.semanticSelector # "None" THEN 1 ELSE 0)
        opt == optimize_complex_selector(descriptor.selector)
        n_opt == IF opt # "None" /\ opt # descriptor.selector THEN 1 ELSE 0
    IN  ((n_head + 1)..(n_head + n_opt))
        \cup ((n_head + n_opt + 2 + Len(ps.fallbackSelectors))..Len(Candidates))

\* C33: the stored candidates are attempted first, in the order primary, semantic,
\* stored fallbacks; no candidate synthesized during the call is attempted before
\* a stored one.
C33_AsStated ==
    resolved.called =>
        \A j \in FreshPositions, k \in StoredPositions :
            (j <= Len(resolved.attempts) /\ k <= Len(resolved.attempts)) => k < j

\* C34: the k-th candidate (counted from 0) is given the full nominal timeout for
\* k = 0, min(60%, 3000 ms) for k in {1,2}, min(40%, 2000 ms) for k in {3,4} and
\* min(20%, 1000 ms) for k >= 5, the nominal timeout being 5000 ms when the caller
\* gives none.
C34_AsStated ==
    resolved.called =>
        LET nominal == IF descriptor.timeout_given THEN descriptor.timeout_ms ELSE 5000
        IN  \A k \in 0..(min(Len(resolved.attempts), Len(Candidates)) - 1) :
                resolved.timeouts[k + 1] =
                    IF k = 0 THEN nominal
                    ELSE IF k \in {1, 2} THEN min((nominal * 60) \div 100, 3000)
                    ELSE IF k \in {3, 4} THEN min((nominal * 40) \div 100, 2000)
                    ELSE min((nominal * 20) \div 100, 1000)

\* C35: for a selector that embeds an id and a data-testid, the test-id candidate
\* is attempted before the id candidate.
C35_AsStated ==
    (resolved.called /\ descriptor.selector = "input[id=\"a\"][data-testid=\"t\"]") =>
        \A k \in 1..Len(resolved.attempts) :
            resolved.attempts[k] = "#a" =>
                \E j \in 1..(k - 1) : resolved.attempts[j] = "[data-testid='t']"

\* the selector argument has an optimized form
HasOptimized ==
    /\ optimize_complex_selector(descriptor.selector) # "None"
    /\ optimize_complex_selector(descriptor.selector) # descriptor.selector

\* attempt k was preceded by an attempt of the selector text
TriedBefore(text, k) == \E j \in 1..(k - 1) : resolved.attempts[j] = text

\* C33 (amended): the primary and the semantic selector of the params are attempted
\* first; the optimized selector and the original selector are attempted before any
\* stored fallback; a generated fallback that is none of these selectors is
\* attempted after every stored one.
C33_PriorityOrder ==
    resolved.called =>
        LET a == resolved.attempts
            ps == descriptor.params
            stored == Range(ps.fallbackSelectors)
            generated ==
                Range(generate_stable_selectors(
                          IF optimize_complex_selector(descriptor.selector) # "None"
                          THEN optimize_complex_selector(descriptor.selector)
                          ELSE descriptor.selector))
        IN  /\ ps.primarySelector # "None" => a[1] = ps.primarySelector
            /\ ps.semanticSelector # "None" =>
                  \/ a[1] = ps.semanticSelector
                  \/ a[1] = ps.primarySelector /\ (Len(a) >= 2 => a[2] = ps.semanticSelector)
            /\ \A k \in 1..Len(a) :
                  a[k] \in stored =>
                      /\ TriedBefore(descriptor.selector, k)
                      /\ HasOptimized =>
                            TriedBefore(optimize_complex_selector(descriptor.selector), k)
            /\ \A k \in 1..Len(a) :
                  (/\ a[k] \in generated
                   /\ a[k] \notin {descriptor.selector, ps.primarySelector, ps.semanticSelector,
                                   optimize_complex_selector(descriptor.selector)}) =>
                      \A f \in stored : TriedBefore(f, k)

\* a call that went through the optimized selector, the original selector and a
\* stored fallback, in that order, after the primary selector
C33_Witness ==
    /\ resolved.called
    /\ HasOptimized
    /\ descriptor.params.primarySelector = "#p"
    /\ descriptor.params.semanticSelector = "None"
    /\ Len(descriptor.params.fallbackSelectors) >= 1
    /\ Len(resolved.attempts) >= 4
    /\ resolved.attempts[2] = optimize_complex_selector(descriptor.selector)
    /\ resolved.attempts[3] = descriptor.selector
    /\ resolved.attempts[4] = descriptor.params.fallbackSelectors[1]

\* C35 (amended): for a selector that embeds an id and a data-testid, the id
\* candidate "#id" is the optimized selector, attempted right after the primary and
\* semantic selectors of the params and before the original selector; no candidate
\* is made of the test id.
C35_IdCandidateOnly ==
    (resolved.called /\ descriptor.selector = "input[id=\"a\"][data-testid=\"t\"]") =>
        /\ \A k \in 1..Len(resolved.attempts) : resolved.attempts[k] # "[data-testid='t']"
        /\ \A k \in 1..Len(resolved.attempts) :
              resolved.attempts[k] = descriptor.selector => TriedBefore("#a", k)

C35_Witness ==
    /\ resolved.called
    /\ descriptor.selector = "input[id=\"a\"][data-testid=\"t\"]"
    /\ descriptor.params.primarySelector = "None"
    /\ descriptor.params.semanticSelector = "None"
    /\ resolved.attempts[1] = "#a"
    /\ resolved.ok
    /\ resolved.selector = descriptor.selector

----------------------------------------------------------------------------
(* Further properties of the runs (Spec) *)

\* C36: if the replay of step i fails and the scenario has no step line of index i
\* (fewer than i+1 step lines), the step fails without an agent invocation, nothing
\* is captured or written for it, and the run stops there as failed.
C36_NoSubScenarioNoAgent ==
    \A k \in LogIdx :
        (log[k].ev = "replay" /\ ~log[k].ok /\ nLines < log[k].i + 1) =>
            LET i == log[k].i
            IN  /\ k = Len(log)
                /\ ~Logged("agent", i)
                /\ ~Logged("update", i)
                /\ i \notin Range(fallback_steps)
                /\ pc \in {"fallback", "record", "finish", "done"}
                /\ pc = "record" => ret = NoRet
                /\ pc \in {"finish", "done"} =>
                      /\ ~overall_success
                      /\ Len(step_results) = i + 1
                      /\ step_results[i + 1] = StepResult(i, FALSE, "unknown")
                /\ pc = "done" => ~result.success /\ result.step_results = step_results

\* a finished run of a two-step script on a scenario with one step line: step 0
\* went through, the replay of step 1 failed and no agent ran for it
C36_Witness ==
    /\ pc = "done"
    /\ Len(wf) = 2
    /\ nLines = 1
    /\ \E k \in LogIdx : log[k].ev = "replay" /\ log[k].i = 1 /\ ~log[k].ok
    /\ ~Logged("agent", 1)
    /\ Len(result.step_results) = 2
    /\ ~result.success

\* the number of log entries of kind ev for step i
Count(ev, i) == Cardinality({k \in LogIdx : log[k].ev = ev /\ log[k].i = i})

ReplayCompleted(i) == \E k \in LogIdx : log[k].ev = "replay" /\ log[k].i = i /\ log[k].ok

\* the entries of step_results for step i
ResultsOf(i) == {k \in 1..Len(step_results) : step_results[k].step_index = i}

\* C40: once a step completed by the replay engine has been recorded, it has an
\* entry in step_results with the method workflow-execution, and no entry has the
\* method browser-use-fallback unless the agent was invoked for its step.
C40_AsStated ==
    /\ \A i \in 0..(Len(wf) - 1) :
           (ReplayCompleted(i) /\ (step_index > i \/ pc \in {"finish", "done"})) =>
               /\ ResultsOf(i) # {}
               /\ \A k \in ResultsOf(i) : step_results[k].method = "workflow-execution"
    /\ \A k \in 1..Len(step_results) :
           step_results[k].method = "browser-use-fallback" =>
               Logged("agent", step_results[k].step_index)

\* C39: when update_workflow_with_step reports failure, the script file is what it
\* was before the call.
C39_AsStated ==
    (lastUpdate.called /\ ~lastUpdate.ok) => file = prevFile

----------------------------------------------------------------------------
(* SpecStepCapture: the step captured from an agent run and its write-back *)

\* the forms of ActionResult.extracted_content that _parse_action_content_to_step
\* tells apart: "Navigated to https://...", "Input ... into index N",
\* "Clicked ... with index N", and anything else (None and "" included)
ContentKinds == {"navigated_to_url", "input_into_index", "clicked_index", "other"}

\* the actions of the agent runs of a single step
StepActionNames == {"go_to_url", "input_text", "click_element_by_index", "scroll_down"}

\* the step with the generic selector [data-index='N']
generic_step(type) ==
    [NoCapturedStep EXCEPT !.type = type,
                           !.cssSelector = Sel("data-index", "", "N", "", <<>>)]

\* SimpleWorkflowCapture._parse_action_content_to_step
_parse_action_content_to_step(content) ==
    CASE content = "navigated_to_url" -> [NoCapturedStep EXCEPT !.type = "navigation"]
      [] content = "input_into_index" -> generic_step("input")
      [] content = "clicked_index" -> generic_step("click")
      [] OTHER -> NoCapturedStep

RECURSIVE _extract_steps_from_action_results(_)
\* SimpleWorkflowCapture._extract_steps_from_action_results: the steps parsed from
\* the contents of the action results, in their order
_extract_steps_from_action_results(agent_history) ==
    IF agent_history = <<>> THEN <<>>
    ELSE LET step == _parse_action_content_to_step(Head(agent_history).extracted_content)
         IN  (IF step.type # "none" THEN <<step>> ELSE <<>>)
             \o _extract_steps_from_action_results(Tail(agent_history))

\* SimpleWorkflowCapture.create_workflow_from_browser_use, by the steps of the
\* definition it returns (<<>> for None): the action results are read only when
\* the model actions gave no step
create_workflow_from_browser_use(agent_history) ==
    LET steps == _extract_steps_from_agent_history(agent_history)
    IN  IF steps # <<>> THEN steps
        ELSE _extract_steps_from_action_results(agent_history)

\* faulty variant: the last captured step is returned
_capture_step_from_history_last(agent_history) ==
    LET steps == create_workflow_from_browser_use(agent_history)
    IN  IF steps # <<>> THEN steps[Len(steps)] ELSE NoCapturedStep

\* FallbackManager._capture_step_from_history: workflow_def.steps[0]; None when no
\* definition was made
_capture_step_from_history(agent_history) ==
    LET steps == create_workflow_from_browser_use(agent_history)
    IN  IF steps # <<>> THEN steps[1] ELSE NoCapturedStep

\* the script the captured step is written into: two steps, none updated yet
StepCaptureFile == ScriptFile(V100, <<StepOf("click", "file"), StepOf("input", "file")>>, <<>>)

InitStepCapture ==
    /\ file = StepCaptureFile
    /\ prevFile = file
    /\ lastUpdate = NoUpdate
    /\ replaced = {}
    /\ calls = 0
    /\ RunIdle
    /\ ExtractIdle
    /\ ResolveIdle
    /\ ClassifyIdle
    /\ TokenIdle
    /\ element = NoElement
    /\ synthesized = NoSelectors
    /\ trace \in UNION {[1..n -> [action_name : StepActionNames,
                                  interacted_element : TraceElements,
                                  extracted_content : ContentKinds]] : n \in 0..MaxTrace}
    /\ capture = NoCapture

\* the end of a successful agent fallback for the step at index: the step is
\* captured from the history (fallback_manager.py:142-147) and, when there is one,
\* written into the script (test_runner.py:787-798)
CaptureAndUpdate(index, io) ==
    LET updated_step == _capture_step_from_history(trace)
        r == update_workflow_with_step(file, index, updated_step, io)
    IN  /\ ~capture.called
        /\ capture' = [called |-> TRUE, steps |-> create_workflow_from_browser_use(trace)]
        /\ IF updated_step.type # "none"
           THEN /\ calls' = calls + 1
                /\ prevFile' = file
                /\ file' = r.file
                /\ lastUpdate' = [step_index |-> index, updated_step |-> updated_step,
                                  io |-> io, ok |-> r.ok, called |-> TRUE]
                /\ replaced' = IF r.ok THEN replaced \cup {index} ELSE replaced
           ELSE UNCHANGED <<file, calls, prevFile, lastUpdate, replaced>>
        /\ UNCHANGED <<element, synthesized, trace>>
        /\ UNCHANGED <<runVars, extractVars, resolveVars, classifyVars, tokenVars>>

NextStepCapture ==
    \E index \in 0..(Len(file.steps) - 1), io \in IoOutcomes : CaptureAndUpdate(index, io)

SpecStepCapture == InitStepCapture /\ [][NextStepCapture]_vars

\* whether the model actions of the trace give a step at all
FromModelActions ==
    \E p \in 1..Len(trace) :
        _convert_browser_action_to_step(trace[p].action_name,
                                        trace[p].interacted_element).type # "none"

\* the step the p-th action of the trace produces, NoCapturedStep when it produces none
Produced(p) ==
    IF FromModelActions
    THEN _convert_browser_action_to_step(trace[p].action_name, trace[p].interacted_element)
    ELSE _parse_action_content_to_step(trace[p].extracted_content)

StepProducing == {p \in 1..Len(trace) : Produced(p).type # "none"}

FirstStepProducing == CHOOSE p \in StepProducing : \A q \in StepProducing : p <= q

\* C38: after a successful write-back for step i, the script holds at index i the
\* step of the first step-producing action of the agent's trace, its other steps
\* are what they were, its length is unchanged, and no step of a later action of
\* the trace is in it.
C38_FirstStepOnly ==
    (capture.called /\ lastUpdate.called /\ lastUpdate.ok) =>
        /\ StepProducing # {}
        /\ file.steps[lastUpdate.step_index + 1] = Produced(FirstStepProducing)
        /\ Len(file.steps) = Len(prevFile.steps)
        /\ \A j \in 1..Len(file.steps) :
               j # lastUpdate.step_index + 1 => file.steps[j] = prevFile.steps[j]
        /\ \A p \in StepProducing :
               Produced(p) # Produced(FirstStepProducing) => Produced(p) \notin Range(file.steps)

\* a write-back after a trace of two step-producing actions with different steps,
\* into a script of two steps
C38_Witness ==
    /\ capture.called
    /\ lastUpdate.called
    /\ lastUpdate.ok
    /\ Len(file.steps) = 2
    /\ Cardinality(StepProducing) = 2
    /\ \E p \in StepProducing : Produced(p) # Produced(FirstStepProducing)

====
